---- MODULE Spec2Model ----
(***************************************************************************)
(* Verification model of gomcp: the analytics Collector (single-flight     *)
(* flush with re-queue), the transport interceptor (instrumentTransport)   *)
(* and the proxy's session HTTP listener (McpProxy.listen).                *)
(***************************************************************************)
EXTENDS Integers, Sequences, FiniteSets, Bags, TLC

(***************************************************************************)
(* Bounds of the model.                                                    *)
(***************************************************************************)
\* number of events record() is called with
MaxEvents == 2
\* number of flushPending() runs that are started
MaxRuns == 2
\* number of concurrent flush() invocations (manual, timer, destroy)
NumCallers == 2
\* Collector constructor argument maxBufferSize (ring buffer capacity)
MaxBufferSize == 2
\* number of requests the client sends over the instrumented transport
MaxReq == 2
\* the same with tracing on
MaxTracedReq == 1
\* number of close() calls of the instrumented transport waiting at once
MaxPendingCloses == 2
\* number of server/transport instances the listener creates
MaxInstances == 2
\* number of HTTP requests in flight at a time
NumHandlers == 2
\* length of the middleware list executeMiddlewareChain is given
MaxChainLen == 3
\* number of times one middleware calls next()
MaxNextCalls == 2
\* length of a glob pattern given to globToRegex
MaxPatternLen == 2
\* length of a tool name
MaxNameLen == 2
\* number of routing rules a Router is constructed with
MaxRules == 2
\* length of the pattern of a routing rule
MaxRulePatternLen == 1
\* number of entries of the allow list and of the deny list of filter
MaxFilterEntries == 1
\* number of calls made through the cache middleware
MaxCalls == 2
\* number of seconds Date.now() advances by
MaxClock == 2
\* largest ttl (in seconds) the cache middleware is created with
MaxTtl == 2
\* middleware of the proxy a tool is called through
MaxCallChainLen == 2
MaxEdits == 2
\* backends of the proxy whose tool index is refreshed, and refreshes
MaxBackends == 2
MaxRefreshes == 2
\* number of close() calls made on one proxy
MaxCloses == 2

\* number of calls of one method of a backend client awaiting at once
MaxClientCalls == 2
\* events recorded into the aggregates between two resets, and the largest
\* toolWindowSize configured
MaxStatEvents == 3
MaxWindow == 2
\* resets of the aggregates
MaxResets == 1
\* calls of one wrapped tool handler
MaxWrapCalls == 2
\* messages through one instrumented transport, and their JSON-RPC ids
MaxFlowMessages == 3
MaxFlowIds == 2

(***************************************************************************)
(* ----------------------------- Collector ------------------------------ *)
(* State of packages/analytics/src/collector.ts.                           *)
(***************************************************************************)
VARIABLES
    buffer,        \* ring buffer of recent events
    pending,       \* events accumulated since the last flush
    totalCalls,
    totalErrors,
    flushTimer,    \* TRUE while the setInterval timer is armed
    flushInFlight, \* 0 (undefined) or the index of the run stored in it
    runs,          \* every flushPending() promise: [state, batch]
    callerPc,      \* position of each flush()/destroy()/timer invocation
    callerKind,
    callerRun,     \* the run the invocation awaits (or awaited last)
    callerResult,  \* how the last invocation ended
    exported,      \* batches the exporter accepted, in order
    recorded,      \* number of record() calls so far
    failedBatch,   \* the batch of the last rejected export, until delivered
    resetAt        \* the number of record() calls made before the last reset()

collectorVars == <<buffer, pending, totalCalls, totalErrors, flushTimer,
                   flushInFlight, runs, callerPc, callerKind, callerRun,
                   callerResult, exported, recorded, failedBatch,
                   resetAt>>

(***************************************************************************)
(* ------------------------ Transport interceptor ----------------------- *)
(* State of instrumentTransport (packages/analytics/src/middleware.ts,     *)
(* lines 304-498).                                                         *)
(***************************************************************************)
VARIABLES
    tracing,          \* instrumentTransport argument
    samplingStrategy, \* instrumentTransport argument
    onmessageSet,     \* the interceptor's onmessage is installed on the target
    oncloseSet,       \* the interceptor's onclose is installed on the target
    sessionId,        \* target.sessionId
    pendingMap,       \* the pending Map: JSON-RPC id -> PendingCall
    sessionSamplingDecisions,
    spanState,        \* per PendingCall: progress of startToolSpan/tracingInit
    deferred,         \* per PendingCall: closures waiting on tracingInit
    spanEnds,         \* per PendingCall: endToolSpan calls made on its span
    events,           \* bag of the ToolCallEvents handed to collector.record
    closing,          \* the close() calls of the wrapper awaiting target.close()
    clock,            \* Date.now()
    req,              \* requests delivered so far: req[id] is the one with that id
    tornDown,         \* PendingCalls dropped by cleanupPendingCalls
    observed          \* sampling decisions per session key since the last teardown

interceptorVars == <<tracing, samplingStrategy, onmessageSet, oncloseSet,
                     sessionId, pendingMap, sessionSamplingDecisions,
                     spanState, deferred, spanEnds, events, closing, clock,
                     req, tornDown, observed>>

(***************************************************************************)
(* ------------------------ Session HTTP listener ----------------------- *)
(* State of McpProxy.listen (packages/proxy/src/proxy.ts, lines 186-328).  *)
(* An instance is the McpServer and the transport one POST creates         *)
(* together; the session id its transport generates is the instance's      *)
(* number.                                                                 *)
(***************************************************************************)
VARIABLES
    sessions,         \* the sessions Map in insertion order: [id, server, transport]
    created,          \* number of instances created so far
    initialized,      \* per instance: the transport has its session id
    oncloseFired,     \* per instance: transport.onclose has run
    transportClosed,  \* per instance: transport.close() has been called
    serverClosed,     \* per instance: server.close() has been called
    handler,          \* per request in flight: where its handler stands
    closePc,          \* position of the close() handle listen() returned
    backendsClosed    \* McpProxy.close() has been called

listenerVars == <<sessions, created, initialized, oncloseFired,
                  transportClosed, serverClosed, handler, closePc,
                  backendsClosed>>

(***************************************************************************)
(* ------------------------ Proxy middleware, router -------------------- *)
(* State of packages/proxy/src/middleware.ts, router.ts and                *)
(* cache-store.ts.  Each object's state is one record.                     *)
(***************************************************************************)
VARIABLES
    \* one executeMiddlewareChain call (middleware.ts 200-217):
    \*   middleware  the list: per middleware the number of times it calls next()
    \*   index       the cursor shared by every next() of the call
    \*   stack       the invocations that have not returned yet, innermost last
    \*   log         what was invoked or returned, in order
    \*   result      what the promise executeMiddlewareChain returned resolved to
    \*   pc          "idle", "running" or "done"
    chainState,
    \* one globToRegex call followed by one RegExp.test (router.ts 7-13):
    \*   pattern     the argument of globToRegex
    \*   regex       the source of the RegExp it returned
    \*   tested      the string given to regex.test
    \*   matched     what regex.test returned
    \*   pc          "idle", "compiled" or "tested"
    globState,
    \* one Router with a resolve call (router.ts 18-40):
    \*   compiled    Router.compiled: [regex, server] per rule
    \*   toolName    the argument of resolve
    \*   resolved    what resolve returned
    \*   pc          "idle", "constructed" or "resolved"
    routerState,
    \* one filter middleware and one call through it (middleware.ts 124-150):
    \*   opts        the argument of filter: allow and deny, each optional
    \*   tool        ctx.toolName of the call
    \*   result      what the middleware returned
    \*   nextCalled  the middleware called next()
    \*   pc          "idle", "created" or "called"
    filterState,
    \* the keys the cache middleware computes for two calls (middleware.ts 163):
    \*   first, second   per call: its tool, its arguments and its key
    keyState,
    \* one cache middleware with its MemoryCacheStore (middleware.ts 155-179,
    \* cache-store.ts):
    \*   opts        the argument of cache: ttl and maxSize
    \*   store       MemoryCacheStore.store in insertion order: [key, result, expiresAt]
    \*   now         Date.now()
    \*   call        the call in progress: where the middleware stands
    \*   history     the calls that returned, in order
    cacheState,
    \* one MemoryCacheStore used directly (cache-store.ts 14-46):
    \*   maxSize     MemoryCacheStore.maxSize, 0 before the constructor ran
    \*   store       MemoryCacheStore.store in insertion order
    \*   now         Date.now()
    \*   last, order, written, fill   the record of the calls made so far
    storeState,
    \* one McpProxy and one callTool through it (proxy.ts 43-58, 97-138):
    \*   compiled      Router.compiled of this.router
    \*   backends      the keys of this.backends
    \*   middleware    this.middleware: per middleware the number of times it
    \*                 calls next()
    \*   throws        per middleware, whether it throws where it would return
    \*   toolName      the argument of callTool
    \*   index, stack, log   as in chainState, for the chain callTool runs
    \*   backendCalls  the calls of backend.callTool
    \*   thrown        what backend.callTool threw
    \*   result        what the promise callTool returned settled with
    \*   pc            "idle", "constructed", "running", "done" or "rejected"
    callState,
    \* one McpProxy, its connect, refreshToolIndex and close calls
    \* (proxy.ts 43-85, 345-349, aggregator.ts, transports/http.ts 19-64):
    \*   backends    the keys of this.backends, in the order of config.servers
    \*   tools       per backend, the names of the tools its server lists
    \*   connected   the backends whose client is set
    \*   cached      the backends whose cachedTools is set
    \*   invalid     the backends whose config.url is no URL
    \*   calls       the refreshToolIndex and close calls, in the order they
    \*               were made
    \*   queue       the jobs of these calls in the engine's job queue
    \*   toolIndex   this.toolIndex in insertion order: [name, backend]
    \*   connects    the connect() calls waiting for the backends' connect()
    indexState,
    \* the aggregates of one Collector (collector.ts 86-111, 198-205, 232-264):
    \*   toolWindowSize       Collector.toolWindowSize, 0 before the constructor
    \*   totalCalls, totalErrors
    \*   accumulators         Map: tool name -> accumulator
    \*   sessionAccumulators  Map: session key -> accumulator with a Map tools
    \*   events               the events recorded since the last reset, in order
    \*   resets               the calls of reset
    statsState,
    \* the calls of one function returned by wrapToolHandler
    \* (analytics middleware.ts 504-560):
    \*   tracing       the tracing argument of wrapToolHandler
    \*   call          the call in progress: its arguments, whether it was
    \*                 sampled, the invocations of the handler, its position
    \*   history       the calls that settled: what the handler did, what
    \*                 the wrapper did, the events given to collector.record
    \*                 during the call and the state the span was left in
    wrapState,
    \* the messages through one instrumentTransport wrapper
    \* (analytics middleware.ts 364-497):
    \*   pc          "unwrapped" before instrumentTransport, then "wrapped"
    \*   installed   the function the user assigned to onmessage last (0:
    \*               none) and whether before or after the wrapping
    \*   target      what target.onmessage holds: nothing, the user's function
    \*               or the interceptor's closure around userHandler
    \*   pendingIds  the keys of the pending Map
    \*   recorded    the calls of collector.record
    \*   steps       the number of messages delivered and sent so far
    \*   last        the last message: what the user's handlers were called
    \*               with and what target.send was called with
    flowState,
    \* one backend client (transports/http.ts 9-69, transports/stdio.ts 42-103):
    \*   client      this.client is set
    \*   cached      this.cachedTools is set
    \*   urlOk       "new URL(config.url)" does not throw
    \*   connecting, closing, listing, calling
    \*               the connect(), close(), listTools() and callTool()
    \*               calls awaiting the SDK client
    \*   unsetting   the close() calls made without a client, about to resume
    \*   phase       what has happened to the connection last: "never",
    \*               "connecting", "connected", "failed" (connect() rejected),
    \*               "closing", "closed" or "closeFailed" (close() rejected)
    \*   lastCall    the last listTools or callTool call: the phase it was
    \*               made in and where it went
    clientState,
    \* one callTool of a proxy whose middlewares rewrite the context
    \* (proxy.ts 97-138, middleware.ts 183-194):
    \*   edits      per middleware, the object its before() returns
    \*   called     the tool name and arguments passed to callTool
    \*   backend    the backend callTool looked up
    \*   ctx        the MiddlewareContext
    \*   index      the chain's cursor
    \*   sent       the backend.callTool call made: backend, name, arguments
    \*   pc         "idle", "running", "sent" or "done"
    sendState

vars == <<collectorVars, interceptorVars, listenerVars, chainState, globState,
          routerState, filterState, keyState, cacheState, storeState,
          callState, indexState, statsState, wrapState, flowState,
          clientState, sendState>>

\* Everything but the named object's own state.
proxyVars == <<chainState, globState, routerState, filterState, keyState,
               cacheState, storeState, callState, indexState, statsState,
               wrapState, flowState, clientState, sendState>>
exceptCollector == <<interceptorVars, listenerVars, proxyVars>>
exceptInterceptor == <<collectorVars, listenerVars, proxyVars>>
exceptListener == <<collectorVars, interceptorVars, proxyVars>>
exceptProxy == <<collectorVars, interceptorVars, listenerVars>>
exceptChain == <<exceptProxy, globState, routerState, filterState, keyState,
                 cacheState, storeState, callState, indexState, statsState,
                 wrapState, flowState, clientState, sendState>>
exceptGlob == <<exceptProxy, chainState, routerState, filterState, keyState,
                cacheState, storeState, callState, indexState, statsState,
                wrapState, flowState, clientState, sendState>>
exceptRouter == <<exceptProxy, chainState, globState, filterState, keyState,
                  cacheState, storeState, callState, indexState, statsState,
                  wrapState, flowState, clientState, sendState>>
exceptFilter == <<exceptProxy, chainState, globState, routerState, keyState,
                  cacheState, storeState, callState, indexState, statsState,
                  wrapState, flowState, clientState, sendState>>
exceptKey == <<exceptProxy, chainState, globState, routerState, filterState,
               cacheState, storeState, callState, indexState, statsState,
               wrapState, flowState, clientState, sendState>>
exceptCache == <<exceptProxy, chainState, globState, routerState, filterState,
                 keyState, storeState, callState, indexState, statsState,
                 wrapState, flowState, clientState, sendState>>
exceptStore == <<exceptProxy, chainState, globState, routerState, filterState,
                 keyState, cacheState, callState, indexState, statsState,
                 wrapState, flowState, clientState, sendState>>
exceptCall == <<exceptProxy, chainState, globState, routerState, filterState,
                keyState, cacheState, storeState, indexState, statsState,
                wrapState, flowState, clientState, sendState>>
exceptIndex == <<exceptProxy, chainState, globState, routerState, filterState,
                 keyState, cacheState, storeState, callState, statsState,
                 wrapState, flowState, clientState, sendState>>
exceptStats == <<exceptProxy, chainState, globState, routerState, filterState,
                 keyState, cacheState, storeState, callState, indexState,
                 wrapState, flowState, clientState, sendState>>
exceptWrap == <<exceptProxy, chainState, globState, routerState, filterState,
                keyState, cacheState, storeState, callState, indexState,
                statsState, flowState, clientState, sendState>>
exceptFlow == <<exceptProxy, chainState, globState, routerState, filterState,
                keyState, cacheState, storeState, callState, indexState,
                statsState, wrapState, clientState, sendState>>
exceptClient == <<exceptProxy, chainState, globState, routerState,
                  filterState, keyState, cacheState, storeState, callState,
                  indexState, statsState, wrapState, flowState, sendState>>
exceptSend == <<exceptProxy, chainState, globState, routerState, filterState,
                keyState, cacheState, storeState, callState, indexState,
                statsState, wrapState, flowState, clientState>>

(***************************************************************************)
(* ----------------------------- Collector ------------------------------ *)
(***************************************************************************)
Callers == 1..NumCallers
CallerKinds == {"manual", "timer", "destroy"}

Flatten(batches) ==
    LET F[i \in 0..Len(batches)] ==
            IF i = 0 THEN <<>> ELSE F[i - 1] \o batches[i]
    IN  F[Len(batches)]

IsPrefix(s, t) == Len(s) <= Len(t) /\ SubSeq(t, 1, Len(s)) = s

CollectorInit ==
    /\ buffer = <<>>
    /\ pending = <<>>
    /\ totalCalls = 0
    /\ totalErrors = 0
    /\ flushTimer = TRUE
    /\ flushInFlight = 0
    /\ runs = <<>>
    /\ callerPc = [c \in Callers |-> "idle"]
    /\ callerKind = [c \in Callers |-> "manual"]
    /\ callerRun = [c \in Callers |-> 0]
    /\ callerResult = [c \in Callers |-> "none"]
    /\ exported = <<>>
    /\ recorded = 0
    /\ failedBatch = <<>>
    /\ resetAt = 0

\* Ring buffer: drop oldest when full (record, lines 88-93).
PushBuffer(buf, event) ==
    IF MaxBufferSize > 0
    THEN (IF Len(buf) >= MaxBufferSize THEN Tail(buf) ELSE buf) \o <<event>>
    ELSE buf

\* Collector.record(event)
record(success) ==
    /\ recorded < MaxEvents
    /\ LET event == [id |-> recorded + 1, success |-> success] IN
       /\ buffer' = PushBuffer(buffer, event)
       /\ pending' = Append(pending, event)
       /\ totalCalls' = totalCalls + 1
       /\ totalErrors' = IF success THEN totalErrors ELSE totalErrors + 1
    /\ recorded' = recorded + 1
    /\ UNCHANGED exceptCollector
    /\ UNCHANGED <<flushTimer, flushInFlight, runs, callerPc, callerKind,
                   callerRun, callerResult, exported, failedBatch, resetAt>>

\* flush(): "if (this.flushInFlight)" with the guard dropped.
FlushIsInFlight_Never == FALSE

\* flush(): "if (this.flushInFlight)" (line 179).
FlushIsInFlight == flushInFlight # 0

\* flushPending(): the failed batch appended behind the newer events.
Requeue_Append(batch, pend) == pend \o batch

\* flushPending(): "this.pending = batch.concat(this.pending)" (line 226).
Requeue(batch, pend) == batch \o pend

\* flushPending() from its start, or from the top of its loop, up to the next
\* await: the run as it stands when control returns to the event loop, with
\* whether it has called the exporter.
FlushPendingStep_ExportsAnyway(called) ==
    [state |-> "exporting", batch |-> pending, called |-> TRUE]
FlushPendingStep(called) ==
    IF Len(pending) > 0
    THEN [state |-> "exporting", batch |-> pending, called |-> TRUE]
    ELSE [state |-> "resolved", batch |-> <<>>, called |-> called]

\* flush() up to its first await, called as a manual flush, by the timer
\* callback or from destroy() (which first clears the timer). Invocations
\* are numbered in the order they start among the free numbers.
flush(c, kind) ==
    /\ callerPc[c] = "idle"
    /\ \A d \in Callers : d < c => callerPc[d] # "idle"
    /\ kind = "timer" => flushTimer
    /\ flushTimer' = IF kind = "destroy" THEN FALSE ELSE flushTimer
    /\ callerKind' = [callerKind EXCEPT ![c] = kind]
    /\ callerResult' = [callerResult EXCEPT ![c] = "none"]
    /\ IF FlushIsInFlight
       THEN /\ callerPc' = [callerPc EXCEPT ![c] = "waiting"]
            /\ callerRun' = [callerRun EXCEPT ![c] = flushInFlight]
            /\ UNCHANGED <<pending, flushInFlight, runs>>
       ELSE /\ Len(runs) < MaxRuns
            /\ runs' = Append(runs, FlushPendingStep(FALSE))
            /\ pending' = <<>>
            /\ flushInFlight' = Len(runs) + 1
            /\ callerPc' = [callerPc EXCEPT ![c] = "owner"]
            /\ callerRun' = [callerRun EXCEPT ![c] = Len(runs) + 1]
    /\ UNCHANGED exceptCollector
    /\ UNCHANGED <<buffer, totalCalls, totalErrors, exported, recorded,
                   failedBatch, resetAt>>

\* The exporter's promise for run r resolves: flushPending() goes round its
\* loop again.
ExporterResolves(r) ==
    /\ r \in 1..Len(runs)
    /\ runs[r].state = "exporting"
    /\ exported' = Append(exported, runs[r].batch)
    /\ failedBatch' = <<>>
    /\ runs' = [runs EXCEPT ![r] = FlushPendingStep(runs[r].called)]
    /\ pending' = <<>>
    /\ UNCHANGED exceptCollector
    /\ UNCHANGED <<buffer, totalCalls, totalErrors, flushTimer, flushInFlight,
                   callerPc, callerKind, callerRun, callerResult, recorded,
                   resetAt>>

\* The exporter's promise for run r rejects: the batch is re-queued and
\* flushPending() rethrows.
ExporterRejects(r) ==
    /\ r \in 1..Len(runs)
    /\ runs[r].state = "exporting"
    /\ pending' = Requeue(runs[r].batch, pending)
    /\ failedBatch' = runs[r].batch
    /\ runs' = [runs EXCEPT ![r] = [state |-> "rejected", batch |-> <<>>,
                                    called |-> runs[r].called]]
    /\ UNCHANGED exceptCollector
    /\ UNCHANGED <<buffer, totalCalls, totalErrors, flushTimer, flushInFlight,
                   callerPc, callerKind, callerRun, callerResult, exported,
                   recorded, resetAt>>

RunSettled(r) == runs[r].state \in {"resolved", "rejected"}

\* What the awaiting code sees: flush() rejects with the run's error, except
\* that the timer callback hands it to onFlushError.
Outcome_TimerThrows(kind, state) ==
    IF state = "resolved" THEN "resolved" ELSE "rejected"
Outcome(kind, state) ==
    IF state = "resolved" THEN "resolved"
    ELSE IF kind = "timer" THEN "onFlushError" ELSE "rejected"

\* flush() after "await run": the finally block of the caller that started it.
flushOwnerResumes(c) ==
    /\ callerPc[c] = "owner"
    /\ RunSettled(callerRun[c])
    /\ flushInFlight' = IF flushInFlight = callerRun[c] THEN 0 ELSE flushInFlight
    /\ callerPc' = [callerPc EXCEPT ![c] = "idle"]
    /\ callerResult' = [callerResult EXCEPT
                           ![c] = Outcome(callerKind[c], runs[callerRun[c]].state)]
    /\ callerKind' = [callerKind EXCEPT ![c] = "manual"]
    /\ UNCHANGED exceptCollector
    /\ UNCHANGED <<buffer, pending, totalCalls, totalErrors, flushTimer, runs,
                   callerRun, exported, recorded, failedBatch, resetAt>>

\* flush() after "await this.flushInFlight" of a caller that found one.
flushWaiterResumes(c) ==
    /\ callerPc[c] = "waiting"
    /\ RunSettled(callerRun[c])
    /\ callerPc' = [callerPc EXCEPT ![c] = "idle"]
    /\ callerResult' = [callerResult EXCEPT
                           ![c] = Outcome(callerKind[c], runs[callerRun[c]].state)]
    /\ callerKind' = [callerKind EXCEPT ![c] = "manual"]
    /\ UNCHANGED exceptCollector
    /\ UNCHANGED <<buffer, pending, totalCalls, totalErrors, flushTimer,
                   flushInFlight, runs, callerRun, exported, recorded,
                   failedBatch, resetAt>>

\* Collector.reset(): the buffer and the queue are emptied in place and the
\* totals zeroed (the accumulators it clears are those of ResetAggregates).
\* A batch flushPending holds is another array and is left as it is.
reset ==
    /\ buffer' = <<>>
    /\ pending' = <<>>
    /\ totalCalls' = 0
    /\ totalErrors' = 0
    /\ resetAt' = recorded
    /\ UNCHANGED exceptCollector
    /\ UNCHANGED <<flushTimer, flushInFlight, runs, callerPc, callerKind,
                   callerRun, callerResult, exported, recorded, failedBatch>>

CollectorNext ==
    \/ \E success \in BOOLEAN : record(success)
    \/ \E c \in Callers, kind \in CallerKinds : flush(c, kind)
    \/ \E r \in 1..MaxRuns : ExporterResolves(r)
    \/ \E r \in 1..MaxRuns : ExporterRejects(r)
    \/ \E c \in Callers : flushOwnerResumes(c)
    \/ \E c \in Callers : flushWaiterResumes(c)

\* The collector with reset() called at any moment.
ResetNext ==
    \/ \E success \in BOOLEAN : record(success)
    \/ \E c \in Callers, kind \in CallerKinds : flush(c, kind)
    \/ \E r \in 1..MaxRuns : ExporterResolves(r)
    \/ \E r \in 1..MaxRuns : ExporterRejects(r)
    \/ \E c \in Callers : flushOwnerResumes(c)
    \/ \E c \in Callers : flushWaiterResumes(c)
    \/ reset

(***************************************************************************)
(* Claims about the Collector.                                             *)
(***************************************************************************)
ExportingRuns == {r \in 1..Len(runs) : runs[r].state = "exporting"}

\* The batch the exporter is working on, if any.
InFlightBatch ==
    IF ExportingRuns = {} THEN <<>>
    ELSE runs[CHOOSE r \in ExportingRuns : TRUE].batch

EventIds(s) == [i \in 1..Len(s) |-> s[i].id]

\* C1: whatever the number of concurrent flush() callers (manual, timer,
\* destroy) and however record() interleaves, at most one exporter invocation
\* is in flight, and it is the one stored in flushInFlight; a caller that
\* arrives during a flush awaits that very run without starting one, and no
\* call completes before the run it awaits has settled.
C1_SingleFlightFlush ==
    /\ Cardinality(ExportingRuns) <= 1
    /\ \A r \in ExportingRuns : flushInFlight = r
    /\ \A c \in Callers :
          callerPc[c] = "waiting" =>
              /\ callerRun[c] \in 1..Len(runs)
              /\ callerRun[c] = flushInFlight \/ RunSettled(callerRun[c])
    /\ \A c \in Callers :
          callerResult[c] # "none" => RunSettled(callerRun[c])

\* A timer or destroy() caller waits on a manual caller's export while record()
\* has queued a further event.
C1_Witness ==
    \E c \in Callers :
        /\ callerPc[c] = "waiting"
        /\ callerKind[c] \in {"timer", "destroy"}
        /\ runs[callerRun[c]].state = "exporting"
        /\ Len(pending) > 0

\* C2: a rejected export makes flush() reject and puts the whole batch back
\* at the front of pending, ahead of the events recorded meanwhile: accepted
\* batches, the batch in flight and pending always hold every recorded event
\* once, in recording order, and the failed events lead the next batch handed
\* to the exporter, all of them in that one batch.
C2_RequeueKeepsOrder ==
    /\ EventIds(Flatten(exported) \o InFlightBatch \o pending)
          = [i \in 1..recorded |-> i]
    /\ IF ExportingRuns # {}
       THEN IsPrefix(failedBatch, InFlightBatch)
       ELSE IsPrefix(failedBatch, pending)
    /\ \A c \in Callers :
          callerResult[c] # "none" =>
              (callerResult[c] \in {"rejected", "onFlushError"}
                  <=> runs[callerRun[c]].state = "rejected")

\* The first export failed with event 1, event 2 was recorded, and the next
\* export delivered both in one batch, event 1 first.
C2_Witness ==
    /\ \E r \in 1..Len(runs) : runs[r].state = "rejected"
    /\ \E c \in Callers : callerResult[c] = "rejected"
    /\ Len(exported) = 1
    /\ EventIds(exported[1]) = <<1, 2>>

\* Every event recorded so far has been accepted by the exporter: a flush
\* succeeded and record() has not been called since.
AllDelivered == EventIds(Flatten(exported)) = [i \in 1..recorded |-> i]

\* A call of flush() that finds everything delivered starts a run that
\* resolves without calling the exporter.
FlushOfNothingIsNoOp ==
    AllDelivered /\ Len(runs') > Len(runs) =>
        /\ runs'[Len(runs')].state = "resolved"
        /\ ~runs'[Len(runs')].called
        /\ exported' = exported

\* C29: no event is in two batches the exporter accepted, the exporter is
\* never called with an empty batch, and a flush() called when every
\* recorded event has been accepted does not call the exporter.
C29_FlushedOnceNeverEmpty ==
    /\ [][FlushOfNothingIsNoOp]_vars
    /\ [](LET ids == EventIds(Flatten(exported))
          IN  /\ \A i, j \in 1..Len(ids) : ids[i] = ids[j] => i = j
              /\ \A r \in ExportingRuns : runs[r].batch # <<>>
              /\ \A i \in 1..Len(exported) : exported[i] # <<>>
              /\ \A r \in 1..Len(runs) :
                    ~runs[r].called => runs[r].state = "resolved")

\* A flush exported everything; the next flush, with nothing recorded in
\* between, resolved without calling the exporter.
\* C34: once reset() has returned, the ring buffer and the pending queue
\* hold only events recorded after it, at that moment and later, whatever
\* becomes of a flush that was in flight, and totalCalls counts those events.
C34_ResetClearsEverything ==
    /\ \A i \in 1..Len(pending) : pending[i].id > resetAt
    /\ \A i \in 1..Len(buffer) : buffer[i].id > resetAt
    /\ totalCalls = recorded - resetAt

C29_Witness ==
    /\ Len(runs) = 2
    /\ runs[1].state = "resolved" /\ runs[1].called
    /\ runs[2].state = "resolved" /\ ~runs[2].called
    /\ recorded > 0
    /\ AllDelivered

\* The timer callback's flush() settles after its run rejected.
TimerFlushFailed(c) ==
    /\ callerKind[c] = "timer"
    /\ callerPc[c] \in {"owner", "waiting"}
    /\ callerPc'[c] = "idle"
    /\ runs[callerRun[c]].state = "rejected"

\* Some caller enters destroy().
DestroyCalled ==
    \E c \in Callers :
        /\ callerPc[c] = "idle"
        /\ callerPc'[c] # "idle"
        /\ callerKind'[c] = "destroy"

\* C30: when the exporter rejects, the batch is back at the front of
\* pending and the timer is as it was; the flush() of a timer callback
\* that awaited the rejected run hands the error to onFlushError and
\* throws nothing, with every recorded event still pending, in the batch
\* of a later flush, or accepted by the exporter; and the timer is cleared
\* by destroy() only.
C30_TimerFlushFailureIsSwallowed ==
    [][/\ flushTimer' # flushTimer => DestroyCalled
       /\ \A r \in 1..Len(runs) :
             runs[r].state = "exporting" /\ runs'[r].state = "rejected" =>
                 /\ IsPrefix(runs[r].batch, pending')
                 /\ flushTimer' = flushTimer
       /\ \A c \in Callers :
             TimerFlushFailed(c) =>
                 /\ callerResult'[c] = "onFlushError"
                 /\ flushTimer' = flushTimer
                 /\ EventIds(Flatten(exported') \o InFlightBatch \o pending')
                       = [i \in 1..recorded |-> i]]_vars

\* A timer flush failed, its error went to onFlushError, the timer is still
\* set and the failed batch leads pending.
C30_Witness ==
    \E c \in Callers :
        /\ callerResult[c] = "onFlushError"
        /\ callerPc[c] = "idle"
        /\ flushTimer
        /\ failedBatch # <<>>
        /\ IsPrefix(failedBatch, pending)
        /\ ExportingRuns = {}

(***************************************************************************)
(* ------------------------ Transport interceptor ----------------------- *)
(***************************************************************************)
ReqIds == 1..MaxReq
NoSession == "undefined"
SessionIds == {"s1"}
SessionKeys == SessionIds \cup {"unknown"}
NoName == "undefined"
\* The requests a client sends: method, params.name and the byte length of
\* the JSON text of params.arguments (0: no arguments).
RequestShapes ==
    { [method |-> "tools/call", name |-> "search", argBytes |-> 2],
      [method |-> "tools/call", name |-> NoName, argBytes |-> 0],
      [method |-> "tools/list", name |-> NoName, argBytes |-> 0] }
\* byte length of the JSON text of a response's result or error object
PayloadBytes == {4}
OutKinds == {"result", "error", "request", "notification"}
CloseReason == "Transport closed before tool response"
NoValue == "undefined"
\* error.code of the error responses sent, and the errorCode of an event
\* that has none
InternalError == -32603
NoErrorCode == 0
EmptyMap == [i \in {} |-> 0]

InterceptorInit ==
    /\ tracing \in BOOLEAN
    /\ samplingStrategy \in {"per_call", "per_session"}
    /\ onmessageSet = FALSE
    /\ oncloseSet = FALSE
    /\ sessionId = NoSession
    /\ pendingMap = EmptyMap
    /\ sessionSamplingDecisions = EmptyMap
    /\ spanState = [i \in ReqIds |-> "off"]
    /\ deferred = [i \in ReqIds |-> <<>>]
    /\ spanEnds = [i \in ReqIds |-> <<>>]
    /\ events = EmptyBag
    /\ closing = 0
    /\ clock = 0
    /\ req = <<>>
    /\ tornDown = {}
    /\ observed = [k \in SessionKeys |-> {}]

MapPut(map, key, value) ==
    [k \in DOMAIN map \cup {key} |-> IF k = key THEN value ELSE map[k]]

\* pending.delete(id) leaving the entry in place.
MapDelete_Keep(map, key) == map
MapDelete(map, key) == [k \in DOMAIN map \ {key} |-> map[k]]

\* sampleForSession with the session cache ignored.
SampleOutcomes_Uncached(sessionKey) == BOOLEAN

\* sampleForSession(sessionKey): the values it can return; Math.random() <
\* sampleRate is either.
SampleOutcomes(sessionKey) ==
    IF samplingStrategy # "per_session" THEN BOOLEAN
    ELSE IF sessionKey \in DOMAIN sessionSamplingDecisions
         THEN {sessionSamplingDecisions[sessionKey]}
         ELSE BOOLEAN

\* sampleForSession: the cache after it returned decision.
sampleForSession(sessionKey, decision) ==
    IF samplingStrategy = "per_session"
       /\ sessionKey \notin DOMAIN sessionSamplingDecisions
    THEN MapPut(sessionSamplingDecisions, sessionKey, decision)
    ELSE sessionSamplingDecisions

\* closePendingCall without its tracingInit branch.
DeferredAfterClose_NoInitBranch(ref, success, errorMessage) == deferred[ref]

\* closePendingCall(call, success, errorMessage), "if (call.tracingInit)": the
\* closures on call.tracingInit afterwards.
DeferredAfterClose(ref, success, errorMessage) ==
    IF spanState[ref] = "initializing"
    THEN Append(deferred[ref], [success |-> success,
                                errorMessage |-> errorMessage,
                                via |-> "tracingInit"])
    ELSE deferred[ref]

\* closePendingCall(call, success, errorMessage), "if (call.tracing)": the
\* endToolSpan calls on the call's span afterwards.
EndsAfterClose(ref, success, errorMessage) ==
    IF spanState[ref] \in {"set", "ready"}
    THEN Append(spanEnds[ref], [success |-> success,
                                errorMessage |-> errorMessage,
                                via |-> "tracing"])
    ELSE spanEnds[ref]

\* closePendingCall for every call in refs.
closePendingCall(refs, success, errorMessage) ==
    /\ spanEnds' = [i \in ReqIds |->
          IF i \in refs THEN EndsAfterClose(i, success, errorMessage)
          ELSE spanEnds[i]]
    /\ deferred' = [i \in ReqIds |->
          IF i \in refs THEN DeferredAfterClose(i, success, errorMessage)
          ELSE deferred[i]]

PendingRefs == {pendingMap[k].ref : k \in DOMAIN pendingMap}

\* cleanupPendingCalls: "pending.clear()" (line 358).
PendingAfterCleanup == EmptyMap

\* cleanupPendingCalls(reason)
cleanupPendingCalls(reason) ==
    /\ closePendingCall(PendingRefs, FALSE, reason)
    /\ pendingMap' = PendingAfterCleanup
    /\ sessionSamplingDecisions' = EmptyMap
    /\ tornDown' = tornDown \cup PendingRefs
    /\ observed' = [k \in SessionKeys |-> {}]

\* proxy.onmessage = handler (set trap)
setOnMessage ==
    /\ onmessageSet' = TRUE
    /\ UNCHANGED exceptInterceptor
    /\ UNCHANGED <<tracing, samplingStrategy, oncloseSet, sessionId, pendingMap,
                   sessionSamplingDecisions, spanState, deferred, spanEnds,
                   events, closing, clock, req, tornDown, observed>>

\* proxy.onclose = handler (set trap)
setOnClose ==
    /\ oncloseSet' = TRUE
    /\ UNCHANGED exceptInterceptor
    /\ UNCHANGED <<tracing, samplingStrategy, onmessageSet, sessionId,
                   pendingMap, sessionSamplingDecisions, spanState, deferred,
                   spanEnds, events, closing, clock, req, tornDown,
                   observed>>

\* The underlying transport learns its session id.
sessionInitialized(sid) ==
    /\ sessionId = NoSession
    /\ sessionId' = sid
    /\ UNCHANGED exceptInterceptor
    /\ UNCHANGED <<tracing, samplingStrategy, onmessageSet, oncloseSet,
                   pendingMap, sessionSamplingDecisions, spanState, deferred,
                   spanEnds, events, closing, clock, req, tornDown,
                   observed>>

\* Requests explored: fewer with tracing on, where each call carries the
\* state of its span as well.
RequestBound == IF tracing THEN MaxTracedReq ELSE MaxReq

\* The target delivers a client request to the installed onmessage.
onmessage(message, decision) ==
    /\ onmessageSet
    /\ Len(req) < RequestBound
    /\ LET id == Len(req) + 1
           method == message.method
           name == message.name
           argBytes == message.argBytes
           sessionKey == IF sessionId = NoSession THEN "unknown" ELSE sessionId
           isCall == method = "tools/call"
           pendingCall == [ref |-> id,
                           toolName |-> IF name = NoName THEN "unknown" ELSE name,
                           startTime |-> clock,
                           inputSize |-> argBytes]
       IN
       /\ IF isCall THEN decision \in SampleOutcomes(sessionKey)
                    ELSE decision = FALSE
       /\ sessionSamplingDecisions' =
             IF isCall THEN sampleForSession(sessionKey, decision)
             ELSE sessionSamplingDecisions
       /\ pendingMap' = IF decision THEN MapPut(pendingMap, id, pendingCall)
                        ELSE pendingMap
       /\ spanState' = IF decision /\ tracing
                       THEN [spanState EXCEPT ![id] = "initializing"]
                       ELSE spanState
       /\ req' = Append(req, [method |-> method, name |-> name,
                              argBytes |-> argBytes, time |-> clock,
                              sampled |-> decision])
       /\ observed' = IF isCall
                      THEN [observed EXCEPT ![sessionKey] = @ \cup {decision}]
                      ELSE observed
    /\ clock' = clock + 1
    /\ UNCHANGED exceptInterceptor
    /\ UNCHANGED <<tracing, samplingStrategy, onmessageSet, oncloseSet,
                   sessionId, deferred, spanEnds, events, closing, tornDown>>

\* startToolSpan settles and the first then/catch of tracingInit runs:
\* with a span, pendingCall.tracing is set; with none (no tracer, or a
\* rejection) tracingInit yields undefined and its closures end nothing.
startToolSpanSettles(ref, gotSpan) ==
    /\ spanState[ref] = "initializing"
    /\ spanState' = [spanState EXCEPT ![ref] = IF gotSpan THEN "set" ELSE "none"]
    /\ deferred' = IF gotSpan THEN deferred ELSE [deferred EXCEPT ![ref] = <<>>]
    /\ UNCHANGED exceptInterceptor
    /\ UNCHANGED <<tracing, samplingStrategy, onmessageSet, oncloseSet,
                   sessionId, pendingMap, sessionSamplingDecisions, spanEnds,
                   events, closing, clock, req, tornDown, observed>>

\* tracingInit resolves with the span: the closures closePendingCall left on
\* it run.
tracingInitResolves(ref) ==
    /\ spanState[ref] = "set"
    /\ spanState' = [spanState EXCEPT ![ref] = "ready"]
    /\ spanEnds' = [spanEnds EXCEPT ![ref] = @ \o deferred[ref]]
    /\ deferred' = [deferred EXCEPT ![ref] = <<>>]
    /\ UNCHANGED exceptInterceptor
    /\ UNCHANGED <<tracing, samplingStrategy, onmessageSet, oncloseSet,
                   sessionId, pendingMap, sessionSamplingDecisions, events,
                   closing, clock, req, tornDown, observed>>

NoCall == [ref |-> 0]

\* pending.get answering with the oldest pending call, whatever the id.
PendingGet_Oldest(id) ==
    IF DOMAIN pendingMap = {} THEN NoCall
    ELSE pendingMap[CHOOSE k \in DOMAIN pendingMap :
                        \A j \in DOMAIN pendingMap : k <= j]

\* send: "pending.get(id)" (line 427).
PendingGet(id) ==
    IF id \in DOMAIN pendingMap THEN pendingMap[id] ELSE NoCall

\* proxy.send(message): the wrapper around target.send.
send(kind, id, bytes) ==
    LET call == PendingGet(id) IN
    /\ IF kind # "notification" /\ call # NoCall
       THEN LET success == kind = "result"
                errorMessage == IF kind = "error" THEN "boom" ELSE NoValue
                errorCode == IF kind = "error" THEN InternalError
                             ELSE NoErrorCode
                outputSize == IF kind \in {"result", "error"} THEN bytes ELSE 0
                event == [rid |-> id,
                          toolName |-> call.toolName,
                          sessionId |-> sessionId,
                          timestamp |-> call.startTime,
                          durationMs |-> clock - call.startTime,
                          success |-> success,
                          inputSize |-> call.inputSize,
                          outputSize |-> outputSize,
                          errorMessage |-> errorMessage,
                          errorCode |-> errorCode]
            IN  /\ pendingMap' = MapDelete(pendingMap, id)
                /\ events' = events (+) SetToBag({event})
                /\ closePendingCall({call.ref}, success, errorMessage)
       ELSE UNCHANGED <<pendingMap, events, spanEnds, deferred>>
    /\ UNCHANGED exceptInterceptor
    /\ UNCHANGED <<tracing, samplingStrategy, onmessageSet, oncloseSet,
                   sessionId, sessionSamplingDecisions, spanState, closing,
                   clock, req, tornDown, observed>>

\* The target fires the onclose the interceptor installed.
onclose ==
    /\ oncloseSet
    /\ cleanupPendingCalls(CloseReason)
    /\ UNCHANGED exceptInterceptor
    /\ UNCHANGED <<tracing, samplingStrategy, onmessageSet, oncloseSet,
                   sessionId, spanState, events, closing, clock, req>>

\* proxy.close() up to "await target.close()"; another close() may be
\* waiting there already.
close ==
    /\ closing < MaxPendingCloses
    /\ closing' = closing + 1
    /\ UNCHANGED exceptInterceptor
    /\ UNCHANGED <<tracing, samplingStrategy, onmessageSet, oncloseSet,
                   sessionId, pendingMap, sessionSamplingDecisions, spanState,
                   deferred, spanEnds, events, clock, req, tornDown,
                   observed>>

\* proxy.close(): the finally block of one of the calls, whether its
\* target.close() resolved or threw.
closeFinally ==
    /\ closing > 0
    /\ closing' = closing - 1
    /\ cleanupPendingCalls(CloseReason)
    /\ UNCHANGED exceptInterceptor
    /\ UNCHANGED <<tracing, samplingStrategy, onmessageSet, oncloseSet,
                   sessionId, spanState, events, clock, req>>

\* The messages sent: a result, an error and a request for the id of every
\* pending call, and while a call is pending a notification, which has no
\* id of its own; for an id without a pending call, where send changes
\* nothing whatever the kind, a result with the first such id.
Sends ==
    LET free == ReqIds \ DOMAIN pendingMap
        first == {id \in free : \A other \in free : id <= other}
        oldest == {id \in DOMAIN pendingMap :
                      \A other \in DOMAIN pendingMap : id <= other}
    IN  ((OutKinds \ {"notification"}) \X DOMAIN pendingMap)
            \cup ({"notification"} \X oldest) \cup ({"result"} \X first)

\* An assignment of onmessage or onclose made again leaves every variable
\* as it is, a step the specification allows in any case: Next draws the
\* assignments that change the target.
InterceptorNext ==
    \/ ~onmessageSet /\ setOnMessage
    \/ ~oncloseSet /\ setOnClose
    \/ \E sid \in SessionIds : sessionInitialized(sid)
    \/ \E message \in RequestShapes, decision \in BOOLEAN :
          onmessage(message, decision)
    \/ \E ref \in ReqIds, gotSpan \in BOOLEAN : startToolSpanSettles(ref, gotSpan)
    \/ \E ref \in ReqIds : tracingInitResolves(ref)
    \/ \E message \in Sends, bytes \in PayloadBytes :
          send(message[1], message[2], bytes)
    \/ onclose
    \/ close
    \/ closeFinally

----------------------------------------------------------------------------
\* Properties of the transport interceptor.

EventsFor(id) == {e \in BagToSet(events) : e.rid = id}

EventCount(id) == BagCardinality([e \in EventsFor(id) |-> events[e]])

ToolNameOf(request) == IF request.name = NoName THEN "unknown" ELSE request.name

\* A tracked call that has left the pending map.
Closed(id) == id <= Len(req) /\ req[id].sampled /\ id \notin DOMAIN pendingMap

BoolToNat(b) == IF b THEN 1 ELSE 0

\* C3: pending tools/call requests are matched to responses by JSON-RPC id.
\* A tracked request is pending, or was dropped by a teardown, or has exactly
\* one ToolCallEvent, never two of these; the event carries that request's
\* tool name, start time and input size, and a request that was not tracked
\* has no event.
C3_MatchedById ==
    \A id \in 1..Len(req) :
        /\ EventCount(id) <= 1
        /\ ~req[id].sampled => EventCount(id) = 0 /\ id \notin DOMAIN pendingMap
        /\ req[id].sampled =>
              BoolToNat(id \in DOMAIN pendingMap) + BoolToNat(id \in tornDown)
                 + EventCount(id) = 1
        /\ id \in DOMAIN pendingMap => pendingMap[id].ref = id
        /\ \A e \in EventsFor(id) :
              /\ e.toolName = ToolNameOf(req[id])
              /\ e.timestamp = req[id].time
              /\ e.inputSize = req[id].argBytes
              /\ e.durationMs >= 0

\* Two calls of different tools were pending together and the later one was
\* answered first: its event is recorded while the earlier one still waits.
C3_Witness ==
    /\ Len(req) >= 2
    /\ 1 \in DOMAIN pendingMap
    /\ EventCount(2) = 1
    /\ ToolNameOf(req[1]) # ToolNameOf(req[2])

\* C4: every call that was pending when the transport closed has a failed
\* ToolCallEvent with reason "Transport closed before tool response" in the
\* collector.
C4_PendingSurfacedAsFailures ==
    \A id \in tornDown :
        \E e \in EventsFor(id) : ~e.success /\ e.errorMessage = CloseReason

\* C5: with tracing on, a span whose initialization succeeded is ended exactly
\* once whatever the order of initialization, response and teardown: never
\* twice, not before its call is closed, once when both the call is closed
\* and tracingInit has resolved, and in between exactly one closure waits on
\* tracingInit.
C5_SpanEndedExactlyOnce ==
    \A id \in ReqIds :
        /\ Len(spanEnds[id]) <= 1
        /\ spanState[id] \in {"off", "none"} => spanEnds[id] = <<>>
        /\ ~Closed(id) => spanEnds[id] = <<>> /\ deferred[id] = <<>>
        /\ Closed(id) /\ spanState[id] \in {"initializing", "set"} =>
              Len(spanEnds[id]) + Len(deferred[id]) = 1
        /\ Closed(id) /\ spanState[id] = "ready" =>
              Len(spanEnds[id]) = 1 /\ deferred[id] = <<>>

\* A call was torn down while its span was still initializing; the span came
\* later and was ended through tracingInit.
C5_Witness ==
    \E id \in tornDown :
        /\ spanState[id] = "ready"
        /\ spanEnds[id] = <<[success |-> FALSE, errorMessage |-> CloseReason,
                             via |-> "tracingInit"]>>

\* C6: under per_session sampling the tools/call requests seen under one
\* session key since the last teardown all got the same sampling decision.
C6_SessionDecisionStable ==
    samplingStrategy = "per_session" =>
        \A k \in SessionKeys : Cardinality(observed[k]) <= 1

\* Two tools/call requests arrived under the key "unknown" with no teardown
\* between them (both are still pending) and both were tracked.
C6_Witness ==
    /\ samplingStrategy = "per_session"
    /\ sessionId = NoSession
    /\ Cardinality(DOMAIN pendingMap) >= 2
    /\ observed["unknown"] = {TRUE}

\* C33: every event classifies a response: it has success = true and
\* neither errorMessage nor errorCode, made from a message with a result,
\* or success = false with the errorMessage and errorCode of a message with
\* an error; a message that is neither makes no event.
C33_EventsClassifyResponses ==
    \A e \in BagToSet(events) :
        \/ e.success /\ e.errorMessage = NoValue /\ e.errorCode = NoErrorCode
        \/ ~e.success /\ e.errorMessage = "boom" /\ e.errorCode = InternalError

\* The tools/call requests seen that were sampled.
SampledCalls ==
    {id \in 1..Len(req) : req[id].method = "tools/call" /\ req[id].sampled}

\* C40: every event belongs to a sampled tools/call request and no request
\* has two; a request that was not sampled, or is not a tools/call, or
\* was dropped by a teardown has none; and the events and the pending
\* entries together never outnumber the sampled tools/call requests seen.
C40_AtMostOneEventPerSampledCall ==
    /\ \A e \in BagToSet(events) : e.rid \in SampledCalls
    /\ \A id \in ReqIds : EventCount(id) <= 1
    /\ \A id \in tornDown : EventCount(id) = 0
    /\ DOMAIN pendingMap \subseteq SampledCalls
    /\ BagCardinality(events) + Cardinality(DOMAIN pendingMap)
          <= Cardinality(SampledCalls)

\* One sampled call was answered and has its event, another was dropped by
\* a teardown before its response and has none.
C40_Witness ==
    /\ Len(req) = 2
    /\ EventCount(1) = 1
    /\ 2 \in tornDown
    /\ pendingMap = EmptyMap


(***************************************************************************)
(* ------------------------ Session HTTP listener ----------------------- *)
(***************************************************************************)
Instances == 1..MaxInstances
Handlers == 1..NumHandlers
NoHeader == 0
Methods == {"POST", "GET", "DELETE", "PUT"}
Paths == {"/mcp", "/health", "/other"}
\* The requests sent to the listener.
Requests ==
    { [method |-> "POST", path |-> "/mcp"],
      [method |-> "GET", path |-> "/mcp"],
      [method |-> "DELETE", path |-> "/mcp"],
      [method |-> "PUT", path |-> "/mcp"],
      [method |-> "GET", path |-> "/health"],
      [method |-> "POST", path |-> "/health"],
      [method |-> "GET", path |-> "/other"] }
MAX_BODY_BYTES == 4194304
\* What a POST carries: the byte lengths of the chunks it arrives in, and
\* whether the text is JSON. One body is exactly MAX_BODY_BYTES long, one
\* passes the limit with its second chunk.
Bodies ==
    { [chunks |-> <<MAX_BODY_BYTES>>, text |-> "json"],
      [chunks |-> <<MAX_BODY_BYTES>>, text |-> "not json"],
      [chunks |-> <<MAX_BODY_BYTES, 1>>, text |-> "not json"] }
NoBody == [chunks |-> <<>>, text |-> "none"]

\* totalBytes after the first n chunks
TotalBytes(chunks, n) ==
    LET T[i \in 0..n] == IF i = 0 THEN 0 ELSE T[i - 1] + chunks[i]
    IN  T[n]

\* The size test with the limit itself rejected.
BodyTooLarge_AtLimit(totalBytes) == totalBytes >= MAX_BODY_BYTES

\* "totalBytes > MAX_BODY_BYTES"
BodyTooLarge(totalBytes) == totalBytes > MAX_BODY_BYTES

\* The body-reading part of POST /mcp: "large" when the running total passes
\* the limit at some chunk, else "badjson" when JSON.parse throws, else
\* "json".
ReadBody(body) ==
    IF \E n \in 1..Len(body.chunks) : BodyTooLarge(TotalBytes(body.chunks, n))
    THEN "large"
    ELSE IF body.text # "json" THEN "badjson" ELSE "json"

\* The branch of the request handler a request takes.
Route(request) ==
    IF request.path = "/mcp" /\ request.method \in {"POST", "GET", "DELETE"}
    THEN request.method
    ELSE IF request.path = "/health" THEN "health" ELSE "notfound"

\* A handler: where it stands, the mcp-session-id header and body it holds,
\* the instance it works on, whether that is a new one (initial POST),
\* whether it is a DELETE, the status it answered with, and whether it came
\* with the id of a session whose transport had fired onclose.
Idle == [pc |-> "idle", sid |-> NoHeader, body |-> NoBody, k |-> 0,
         initial |-> FALSE, isDelete |-> FALSE, status |-> 0, stale |-> FALSE]

\* A handler that has written its response.
Replied(status) == [Idle EXCEPT !.pc = "replied", !.status = status]

ListenerInit ==
    /\ sessions = <<>>
    /\ created = 0
    /\ initialized = [k \in Instances |-> FALSE]
    /\ oncloseFired = [k \in Instances |-> FALSE]
    /\ transportClosed = [k \in Instances |-> FALSE]
    /\ serverClosed = [k \in Instances |-> FALSE]
    /\ handler = [h \in Handlers |-> Idle]
    /\ closePc = "idle"
    /\ backendsClosed = FALSE

RemoveAt(map, i) == SubSeq(map, 1, i - 1) \o SubSeq(map, i + 1, Len(map))

\* sessions.get(sessionId) finds an entry
SessionsHas(map, id) == \E i \in DOMAIN map : map[i].id = id

SessionsGet(map, id) == map[CHOOSE i \in DOMAIN map : map[i].id = id]

\* sessions.set(id, {server, transport})
SessionsSet(map, id, server, transport) ==
    LET entry == [id |-> id, server |-> server, transport |-> transport] IN
    IF SessionsHas(map, id)
    THEN [i \in DOMAIN map |-> IF map[i].id = id THEN entry ELSE map[i]]
    ELSE Append(map, entry)

\* sessions.delete(id)
SessionsDelete(map, id) ==
    IF SessionsHas(map, id)
    THEN RemoveAt(map, CHOOSE i \in DOMAIN map : map[i].id = id)
    ELSE map

\* removeSessionByTransport dropping the oldest entry, whatever its transport.
removeSessionByTransport_First(map, transport) ==
    IF map = <<>> THEN map ELSE Tail(map)

\* removeSessionByTransport(transport): the map afterwards.
removeSessionByTransport(map, transport) ==
    LET hits == {i \in DOMAIN map : map[i].transport = transport} IN
    IF hits = {} THEN map
    ELSE RemoveAt(map, CHOOSE i \in hits : \A j \in hits : i <= j)

\* transport.close() and server.close() are called on instance k, as in
\* Promise.allSettled([transport.close(), server.close()]); the transport's
\* close() fires its onclose, which is removeSessionByTransport.
closeBoth(k, map) ==
    /\ transportClosed' = [transportClosed EXCEPT ![k] = TRUE]
    /\ oncloseFired' = [oncloseFired EXCEPT ![k] = TRUE]
    /\ serverClosed' = [serverClosed EXCEPT ![k] = TRUE]
    /\ sessions' = removeSessionByTransport(map, k)

Listening == closePc \notin {"stopping", "resolved"}

\* POSTs that may still create an instance.
CreatingPosts ==
    {h \in Handlers : handler[h].pc = "body"
                      /\ ReadBody(handler[h].body) = "json"}

\* A request reaches the handler of createServer (requests in flight are
\* numbered in the order of arrival among the free numbers). GET and DELETE
\* look their session up at once; POST first reads its body; /health and
\* everything else is answered at once.
Arrive(h, request, sid, body) ==
    /\ Listening
    /\ handler[h].pc = "idle"
    /\ \A g \in Handlers : g < h => handler[g].pc # "idle"
    /\ IF Route(request) = "POST"
       THEN /\ body \in Bodies
            /\ ReadBody(body) = "json" =>
                  created + Cardinality(CreatingPosts) < MaxInstances
            /\ ReadBody(body) # "json" => sid = NoHeader
            /\ handler' = [handler EXCEPT ![h] =
                  [Idle EXCEPT !.pc = "body", !.sid = sid, !.body = body]]
       ELSE IF Route(request) \in {"health", "notfound"}
       THEN /\ body = NoBody
            /\ sid = NoHeader
            /\ handler' = [handler EXCEPT ![h] =
                  Replied(IF Route(request) = "health" THEN 200 ELSE 404)]
       ELSE /\ body = NoBody
            /\ LET method == request.method
                   stale == sid # NoHeader /\ oncloseFired[sid] IN
               IF sid # NoHeader /\ SessionsHas(sessions, sid)
               THEN handler' = [handler EXCEPT ![h] =
                       [Idle EXCEPT !.pc = "handling", !.sid = sid,
                                    !.isDelete = (method = "DELETE"),
                                    !.stale = stale,
                                    !.k = SessionsGet(sessions, sid).transport]]
               ELSE handler' = [handler EXCEPT ![h] =
                       [Replied(400) EXCEPT !.stale = stale]]
    /\ UNCHANGED <<sessions, created, initialized, oncloseFired,
                   transportClosed, serverClosed, closePc, backendsClosed>>
    /\ UNCHANGED exceptListener

\* POST /mcp after "for await (const chunk of req)": 413, 400, dispatch to
\* the live session, or a new server and transport.
BodyRead(h) ==
    /\ handler[h].pc = "body"
    /\ LET sid == handler[h].sid
           body == ReadBody(handler[h].body)
       IN
       IF body = "large"
       THEN /\ handler' = [handler EXCEPT ![h] = Replied(413)]
            /\ UNCHANGED created
       ELSE IF body = "badjson"
       THEN /\ handler' = [handler EXCEPT ![h] = Replied(400)]
            /\ UNCHANGED created
       ELSE IF sid # NoHeader /\ SessionsHas(sessions, sid)
       THEN /\ handler' = [handler EXCEPT ![h] =
                  [Idle EXCEPT !.pc = "handling", !.sid = sid,
                               !.k = SessionsGet(sessions, sid).transport]]
            /\ UNCHANGED created
       ELSE /\ created < MaxInstances
            /\ created' = created + 1
            /\ handler' = [handler EXCEPT ![h] =
                  [Idle EXCEPT !.pc = "connect", !.k = created + 1,
                               !.initial = TRUE]]
    /\ UNCHANGED <<sessions, initialized, oncloseFired, transportClosed,
                   serverClosed, closePc, backendsClosed>>
    /\ UNCHANGED exceptListener

\* "await sessionServer.connect(transport)" settles; on a rejection
\* close() of both is called and the handler waits at
\* "await Promise.allSettled([...])" with nothing answered.
ConnectSettles(h, ok) ==
    /\ handler[h].pc = "connect"
    /\ IF ok
       THEN /\ handler' = [handler EXCEPT ![h].pc = "handling"]
            /\ UNCHANGED <<sessions, oncloseFired, transportClosed, serverClosed>>
       ELSE /\ closeBoth(handler[h].k, sessions)
            /\ handler' = [handler EXCEPT ![h] = [Idle EXCEPT !.pc = "failing"]]
    /\ UNCHANGED <<created, initialized, closePc, backendsClosed>>
    /\ UNCHANGED exceptListener

\* Both close() calls made after a failed connect have settled: the error
\* is thrown again and the outer catch answers 500.
FailedConnectAnswered(h) ==
    /\ handler[h].pc = "failing"
    /\ handler' = [handler EXCEPT ![h] = Replied(500)]
    /\ UNCHANGED <<sessions, created, initialized, oncloseFired,
                   transportClosed, serverClosed, closePc, backendsClosed>>
    /\ UNCHANGED exceptListener

\* "await session.transport.handleRequest(...)" returns. A fresh transport
\* given an initialize request takes its session id and calls
\* onsessioninitialized; given anything else it refuses. After a DELETE the
\* handler deletes the session and closes both.
HandleRequestReturns(h, isInitialize) ==
    /\ handler[h].pc = "handling"
    /\ ~handler[h].initial => isInitialize = FALSE
    /\ LET k == handler[h].k IN
       IF handler[h].initial
       THEN IF isInitialize
            THEN /\ initialized' = [initialized EXCEPT ![k] = TRUE]
                 /\ sessions' = SessionsSet(sessions, k, k, k)
                 /\ handler' = [handler EXCEPT ![h] = Replied(200)]
                 /\ UNCHANGED <<oncloseFired, transportClosed, serverClosed>>
            ELSE /\ handler' = [handler EXCEPT ![h] = Replied(400)]
                 /\ UNCHANGED <<sessions, initialized, oncloseFired,
                                transportClosed, serverClosed>>
       ELSE IF handler[h].isDelete
            THEN /\ closeBoth(k, SessionsDelete(sessions, handler[h].sid))
                 /\ handler' = [handler EXCEPT ![h] = Replied(200)]
                 /\ UNCHANGED initialized
            ELSE /\ handler' = [handler EXCEPT ![h] = Replied(200)]
                 /\ UNCHANGED <<sessions, initialized, oncloseFired,
                                transportClosed, serverClosed>>
    /\ UNCHANGED <<created, closePc, backendsClosed>>
    /\ UNCHANGED exceptListener

\* The handler's promise settles and the response is complete.
HandlerReturns(h) ==
    /\ handler[h].pc = "replied"
    /\ handler' = [handler EXCEPT ![h] = Idle]
    /\ UNCHANGED <<sessions, created, initialized, oncloseFired,
                   transportClosed, serverClosed, closePc, backendsClosed>>
    /\ UNCHANGED exceptListener

\* A session's transport is closed by someone else than the listener and
\* fires the onclose the listener installed.
TransportCloses(k) ==
    /\ initialized[k]
    /\ ~oncloseFired[k]
    /\ transportClosed' = [transportClosed EXCEPT ![k] = TRUE]
    /\ oncloseFired' = [oncloseFired EXCEPT ![k] = TRUE]
    /\ sessions' = removeSessionByTransport(sessions, k)
    /\ UNCHANGED <<created, initialized, serverClosed, handler, closePc,
                   backendsClosed>>
    /\ UNCHANGED exceptListener

\* close(): one turn of "for (const session of sessions.values())" up to its
\* await, or, the map exhausted, sessions.clear() and the call of this.close().
CloseLoop ==
    /\ IF sessions # <<>>
       THEN /\ closeBoth(Head(sessions).transport, sessions)
            /\ closePc' = "loop"
            /\ UNCHANGED backendsClosed
       ELSE /\ sessions' = <<>>
            /\ backendsClosed' = TRUE
            /\ closePc' = "backends"
            /\ UNCHANGED <<oncloseFired, transportClosed, serverClosed>>
    /\ UNCHANGED <<created, initialized, handler>>
    /\ UNCHANGED exceptListener

\* The close() handle is called.
CloseCalled ==
    /\ closePc = "idle"
    /\ CloseLoop

\* The allSettled of one turn has settled.
CloseLoopResumes ==
    /\ closePc = "loop"
    /\ CloseLoop

\* "await this.close()" has settled: httpServer.close(cb) stops accepting.
BackendsClosed ==
    /\ closePc = "backends"
    /\ closePc' = "stopping"
    /\ UNCHANGED <<sessions, created, initialized, oncloseFired,
                   transportClosed, serverClosed, handler, backendsClosed>>
    /\ UNCHANGED exceptListener

\* httpServer.close's callback: no request is in flight any more.
CloseResolves ==
    /\ closePc = "stopping"
    /\ \A h \in Handlers : handler[h].pc = "idle"
    /\ closePc' = "resolved"
    /\ UNCHANGED <<sessions, created, initialized, oncloseFired,
                   transportClosed, serverClosed, handler, backendsClosed>>
    /\ UNCHANGED exceptListener

\* The mcp-session-id headers and the bodies requests come with.
HeadersFor(request) ==
    IF Route(request) \in {"POST", "GET", "DELETE"} THEN 0..created
    ELSE {NoHeader}

BodiesFor(request) ==
    IF Route(request) = "POST" THEN Bodies ELSE {NoBody}

\* The handler invocation a request that arrives now starts: the first
\* one that is not running, while the listener accepts requests.
FreeHandlers ==
    {h \in Handlers :
        /\ Listening
        /\ handler[h].pc = "idle"
        /\ \A g \in Handlers : g < h => handler[g].pc # "idle"}

\* The requests that reach a session branch of the handler.
McpRequests == {request \in Requests : Route(request) \in {"POST", "GET", "DELETE"}}

ListenerNext ==
    \/ \E h \in FreeHandlers, request \in McpRequests :
          \E sid \in HeadersFor(request), body \in BodiesFor(request) :
             Arrive(h, request, sid, body)
    \/ \E h \in Handlers : BodyRead(h)
    \/ \E h \in Handlers, ok \in BOOLEAN : ConnectSettles(h, ok)
    \/ \E h \in Handlers : FailedConnectAnswered(h)
    \/ \E h \in Handlers, isInitialize \in BOOLEAN :
          HandleRequestReturns(h, isInitialize)
    \/ \E h \in Handlers : HandlerReturns(h)
    \/ \E k \in Instances : TransportCloses(k)
    \/ CloseCalled
    \/ CloseLoopResumes
    \/ BackendsClosed
    \/ CloseResolves

\* The listener under every request, the ones outside the session branches
\* included.
RoutesNext ==
    \/ ListenerNext
    \/ \E h \in FreeHandlers, request \in Requests \ McpRequests :
          Arrive(h, request, NoHeader, NoBody)

----------------------------------------------------------------------------
\* Properties of the session HTTP listener.

InMap(k) == \E i \in DOMAIN sessions : sessions[i].transport = k

\* Servers created and not closed.
LiveServers == {k \in 1..created : ~serverClosed[k]}

\* Instances whose initial POST is still being processed (connecting, or in
\* the transport's handleRequest).
InInitialPost == {handler[h].k : h \in {g \in Handlers : handler[g].initial}}

\* C7: outside an initial POST in progress the servers created and not closed
\* are exactly the servers of the sessions in the map, one server and one
\* transport per session and none shared.
C7_ServersMatchSessions ==
    /\ \A k \in LiveServers \ InInitialPost :
          \E i \in DOMAIN sessions : sessions[i].server = k
    /\ \A i \in DOMAIN sessions : sessions[i].server \in LiveServers
    /\ \A i, j \in DOMAIN sessions :
          i # j => /\ sessions[i].server # sessions[j].server
                   /\ sessions[i].transport # sessions[j].transport

\* C8: a session is in the map exactly while its transport has its id and has
\* not fired onclose, so onclose removes that session and no other; a GET or
\* DELETE that arrives with the id of a session whose transport fired onclose
\* is answered 400 and is not handed to the transport.
C8_ClosedSessionUnreachable ==
    /\ \A k \in Instances : InMap(k) <=> (initialized[k] /\ ~oncloseFired[k])
    /\ \A i \in DOMAIN sessions : sessions[i].id = sessions[i].transport
    /\ \A h \in Handlers :
          handler[h].stale =>
              handler[h].pc = "replied" /\ handler[h].status = 400

\* A GET or DELETE for a session whose transport fired onclose has been
\* answered 400 while another session is still in the map.
C8_Witness ==
    /\ sessions # <<>>
    /\ \E h \in Handlers :
          /\ handler[h].stale
          /\ handler[h].pc = "replied"
          /\ handler[h].status = 400

\* A session that ended: it had an id, is out of the map and no request in
\* flight refers to it.
Gone(k) ==
    /\ initialized[k]
    /\ ~InMap(k)
    /\ \A h \in Handlers : handler[h].k # k

\* C9: a session that is Gone has had close called on its transport and on
\* its server.
C9_GoneOnlyWhenBothClosed ==
    \A k \in Instances : Gone(k) => transportClosed[k] /\ serverClosed[k]

\* C10: once the close() handle has resolved the session map is empty, every
\* session that existed has its transport and its server closed, and the
\* backends are closed.
C10_CloseLeavesNothingLive ==
    closePc = "resolved" =>
        /\ sessions = <<>>
        /\ backendsClosed
        /\ \A k \in Instances :
              initialized[k] => transportClosed[k] /\ serverClosed[k]

\* C11: a POST /mcp whose body passes MAX_BODY_BYTES is answered 413 and one
\* whose body is not JSON is answered 400 when its body has been read; the
\* step creates no instance, leaves the session map alone and hands the
\* request to no transport. A body of exactly MAX_BODY_BYTES bytes is not
\* answered 413.
C11_BodyLimits ==
    [][\A h \in Handlers :
          BodyRead(h) =>
              LET chunks == handler[h].body.chunks
                  total == TotalBytes(chunks, Len(chunks))
              IN  /\ total > MAX_BODY_BYTES =>
                        /\ handler'[h] = Replied(413)
                        /\ created' = created /\ sessions' = sessions
                  /\ total <= MAX_BODY_BYTES /\ handler[h].body.text # "json" =>
                        /\ handler'[h] = Replied(400)
                        /\ created' = created /\ sessions' = sessions
                  /\ total = MAX_BODY_BYTES => handler'[h].status # 413
      ]_vars

\* An oversized POST has been answered 413 while a session is live.
C11_Witness ==
    /\ sessions # <<>>
    /\ \E h \in Handlers : handler[h] = Replied(413)

\* C12: a request that is not POST, GET or DELETE on /mcp and not GET on
\* /health is answered 404 on arrival and leaves the sessions alone.
C12_EverythingElseIs404 ==
    [][\A h \in Handlers, request \in Requests :
          /\ Arrive(h, request, NoHeader, NoBody)
          /\ ~(request.path = "/mcp" /\ request.method \in {"POST", "GET", "DELETE"})
          /\ ~(request.path = "/health" /\ request.method = "GET")
          => handler'[h] = Replied(404) /\ sessions' = sessions
      ]_vars


(***************************************************************************)
(* -------------------------- Middleware chain -------------------------- *)
(* executeMiddlewareChain(middleware, ctx, handler).  A middleware is      *)
(* described by what the chain can see of it: how many times it calls      *)
(* next() before it returns (0: it short-circuits, 1: it passes the call   *)
(* on, 2: it retries).  It awaits each next() before the following one.    *)
(* A middleware that called next() returns the last result it got,         *)
(* rewritten by its post-phase; one that did not returns a result of its   *)
(* own.                                                                    *)
(***************************************************************************)
MiddlewareLists ==
    UNION {[1..n -> 0..MaxNextCalls] : n \in 0..MaxChainLen}

\* The final handler's place in frames, log entries and results.
FinalHandler == 0

NoResult == [origin |-> -1, post |-> <<>>]

\* A result: who produced it and the post-phases that rewrote it, in order.
OwnResult(who) == [origin |-> who, post |-> <<>>]
Rewritten(result, mw) == [result EXCEPT !.post = Append(@, mw)]

\* An object before its constructor (or the first call of a function)
\* has run: it has no fields yet.
NotConstructed == [pc |-> "idle"]

\* The fields of a chain run at its start.
ChainStart ==
    [middleware |-> <<>>, index |-> 0, stack |-> <<>>,
     log |-> <<>>, result |-> NoResult, pc |-> "idle"]

ChainInit == chainState = NotConstructed

\* const mw = middleware[index]: the list position (from 1) of the
\* middleware the cursor stands at.
PickMiddleware_FromEnd(list, idx) == Len(list) - idx
PickMiddleware(list, idx) == idx + 1

\* next(): at the end of the list the handler is invoked, otherwise the
\* middleware at the cursor, and the cursor advances.  stk is the caller's
\* stack with the caller suspended at its await.  The state it leaves.
next(chain, stk) ==
    IF chain.index >= Len(chain.middleware)
    THEN [chain EXCEPT
             !.stack = Append(stk, [mw |-> FinalHandler, calls |-> 0,
                                    got |-> NoResult]),
             !.log = Append(@, [phase |-> "handler", mw |-> FinalHandler])]
    ELSE LET mw == PickMiddleware(chain.middleware, chain.index)
         IN  [chain EXCEPT
                 !.index = @ + 1,
                 !.stack = Append(stk, [mw |-> mw,
                                        calls |-> chain.middleware[mw],
                                        got |-> NoResult]),
                 !.log = Append(@, [phase |-> "pre", mw |-> mw])]

\* The promise of the innermost invocation resolves: its caller resumes
\* with the result, or the chain's own promise resolves.  stk is the stack
\* without that invocation.
Deliver(chain, stk, result) ==
    IF stk = <<>>
    THEN [chain EXCEPT !.stack = <<>>, !.result = result, !.pc = "done"]
    ELSE [chain EXCEPT !.stack = [stk EXCEPT ![Len(stk)].got = result]]

Pop(stk) == SubSeq(stk, 1, Len(stk) - 1)
Top(stk) == stk[Len(stk)]

executeMiddlewareChain(list) ==
    /\ chainState.pc = "idle"
    /\ chainState' = next([ChainStart EXCEPT !.middleware = list,
                                            !.pc = "running"],
                          <<>>)
    /\ UNCHANGED exceptChain

\* A middleware reaches a next() call of its body.
MiddlewareCallsNext ==
    /\ chainState.pc = "running"
    /\ chainState.stack # <<>>
    /\ Top(chainState.stack).mw # FinalHandler
    /\ Top(chainState.stack).calls > 0
    /\ chainState' =
          next(chainState,
               [chainState.stack EXCEPT ![Len(chainState.stack)].calls = @ - 1])
    /\ UNCHANGED exceptChain

\* handler() resolves.
HandlerSettles ==
    /\ chainState.pc = "running"
    /\ chainState.stack # <<>>
    /\ Top(chainState.stack).mw = FinalHandler
    /\ chainState' = Deliver(chainState, Pop(chainState.stack),
                             OwnResult(FinalHandler))
    /\ UNCHANGED exceptChain

\* A middleware has no next() call left and returns.
MiddlewareReturns ==
    /\ chainState.pc = "running"
    /\ chainState.stack # <<>>
    /\ Top(chainState.stack).mw # FinalHandler
    /\ Top(chainState.stack).calls = 0
    /\ LET frame == Top(chainState.stack)
           result == IF frame.got = NoResult
                     THEN OwnResult(frame.mw)
                     ELSE Rewritten(frame.got, frame.mw)
           logged == [chainState EXCEPT
                         !.log = Append(@, [phase |-> "post", mw |-> frame.mw])]
       IN  chainState' = Deliver(logged, Pop(chainState.stack), result)
    /\ UNCHANGED exceptChain

ChainNext ==
    \/ \E list \in MiddlewareLists : executeMiddlewareChain(list)
    \/ MiddlewareCallsNext
    \/ HandlerSettles
    \/ MiddlewareReturns

----------------------------------------------------------------------------
\* Properties of the middleware chain.

\* Every middleware of the list calls next() exactly once.
EachCallsNextOnce ==
    \A i \in 1..Len(chainState.middleware) : chainState.middleware[i] = 1

\* A.pre, B.pre, ..., H, ..., B.post, A.post for a list of n middlewares.
OnionLog(n) ==
    [i \in 1..(2 * n + 1) |->
        IF i <= n THEN [phase |-> "pre", mw |-> i]
        ELSE IF i = n + 1 THEN [phase |-> "handler", mw |-> FinalHandler]
        ELSE [phase |-> "post", mw |-> 2 * n + 2 - i]]

\* C13: when each middleware of the list calls next once, the invocations
\* happen in onion order (the pre-phases in list order, the handler, the
\* post-phases in reverse list order), the handler runs exactly once and
\* the chain returns its result as rewritten by the post-phases, innermost
\* first; with an empty list the handler runs directly and its result is
\* returned as it is.
C13_OnionOrder ==
    chainState.pc # "idle" /\ EachCallsNextOnce =>
        LET n == Len(chainState.middleware)
        IN  /\ IsPrefix(chainState.log, OnionLog(n))
            /\ chainState.pc = "done" =>
                  /\ chainState.log = OnionLog(n)
                  /\ chainState.result =
                        [origin |-> FinalHandler,
                         post |-> [i \in 1..n |-> n + 1 - i]]

C13_Witness ==
    /\ chainState.pc = "done"
    /\ Len(chainState.middleware) = 2
    /\ EachCallsNextOnce
    /\ Len(chainState.log) = 5

\* The middlewares that returned without having called next().
ShortCircuited ==
    {i \in 1..Len(chainState.middleware) :
        /\ chainState.middleware[i] = 0
        /\ \E j \in 1..Len(chainState.log) :
              chainState.log[j] = [phase |-> "post", mw |-> i]}

\* C14: once a middleware has returned without calling next, neither the
\* final handler nor a later middleware is invoked in this execution, and
\* the chain's result is the one that middleware made.
C14_ShortCircuitStopsChain ==
    chainState # NotConstructed =>
        \A i \in ShortCircuited :
            /\ \A j \in 1..Len(chainState.log) :
                  /\ chainState.log[j].phase # "handler"
                  /\ chainState.log[j].phase = "pre" => chainState.log[j].mw <= i
            /\ chainState.pc = "done" => chainState.result.origin = i

\* How many log entries of this phase this middleware (or the handler) has.
Entered(phase, mw) ==
    Cardinality({j \in 1..Len(chainState.log) :
                    chainState.log[j] = [phase |-> phase, mw |-> mw]})

\* C38: in one execution each middleware is entered at most once and the
\* final handler runs at most once, and while the handler runs every
\* middleware of the list is waiting in a next() call, whatever the
\* number of next() calls a middleware makes.
C38_EachEnteredAtMostOnce ==
    chainState # NotConstructed =>
        /\ \A i \in 1..Len(chainState.middleware) : Entered("pre", i) <= 1
        /\ Entered("handler", FinalHandler) <= 1
        /\ chainState.stack # <<>> /\ Top(chainState.stack).mw = FinalHandler =>
              {chainState.stack[k].mw : k \in 1..(Len(chainState.stack) - 1)}
                 = 1..Len(chainState.middleware)

(***************************************************************************)
(* ------------------------------- Router ------------------------------- *)
(* Strings are sequences of characters.  globToRegex is computed as the    *)
(* code computes it: the source text of the regular expression is built    *)
(* by the three replacements, and RegExp.test reads that source.           *)
(***************************************************************************)
LF == "\n"
CR == "\r"
\* LINE SEPARATOR and PARAGRAPH SEPARATOR, each one character
LS == "U+2028"
PS == "U+2029"
Backslash == "\\"

\* Characters of the tool names and of the patterns of the model.
NameChars == {"a", ".", Backslash, LF}
PatternChars == {"a", ".", Backslash, "*", "?"}
RulePatternChars == {"a", "*"}
ToolNameChars == {"a", "."}
Servers == {"first", "second"}

SeqsUpTo(chars, n) == UNION {[1..k -> chars] : k \in 0..n}

Names == SeqsUpTo(NameChars, MaxNameLen)
Patterns == SeqsUpTo(PatternChars, MaxPatternLen)
ToolNames == SeqsUpTo(ToolNameChars, MaxNameLen)
RoutingRules ==
    [pattern : SeqsUpTo(RulePatternChars, MaxRulePatternLen),
     server : Servers]
RuleLists == SeqsUpTo(RoutingRules, MaxRules)

\* The class [.+^${}()|[\]\\] of the first replacement.
RegexSpecials == {".", "+", "^", "$", "{", "}", "(", ")", "|", "[", "]",
                  Backslash}

\* What `.` of a RegExp without the s flag does not match.
LineTerminators == {LF, CR, LS, PS}

\* s.replace(/[.+^${}()|[\]\\]/g, "\\$&")
EscapeSpecials(s) ==
    LET F[i \in 0..Len(s)] ==
            IF i = 0 THEN <<>>
            ELSE F[i - 1] \o (IF s[i] \in RegexSpecials
                              THEN <<Backslash, s[i]>>
                              ELSE <<s[i]>>)
    IN  F[Len(s)]

\* s.replaceAll(ch, by) for a one-character ch
replaceAll(s, ch, by) ==
    LET F[i \in 0..Len(s)] ==
            IF i = 0 THEN <<>>
            ELSE F[i - 1] \o (IF s[i] = ch THEN by ELSE <<s[i]>>)
    IN  F[Len(s)]

\* The source of the RegExp globToRegex returns.
globToRegex(glob) ==
    <<"^">>
    \o replaceAll(replaceAll(EscapeSpecials(glob), "*", <<".", "*">>),
                  "?", <<".">>)
    \o <<"$">>

\* The terms of a RegExp source made of anchors, `.`, escaped characters,
\* plain characters and the quantifier `*`.
RECURSIVE Terms(_, _)
Terms(source, i) ==
    IF i > Len(source) THEN <<>>
    ELSE LET c == source[i]
             escapedChar == c = Backslash /\ i < Len(source)
             width == IF escapedChar THEN 2 ELSE 1
             atom == IF escapedChar THEN [kind |-> "char", ch |-> source[i + 1]]
                     ELSE IF c = "." THEN [kind |-> "any", ch |-> "."]
                     ELSE IF c = "^" THEN [kind |-> "start", ch |-> c]
                     ELSE IF c = "$" THEN [kind |-> "end", ch |-> c]
                     ELSE [kind |-> "char", ch |-> c]
             star == /\ i + width <= Len(source)
                     /\ source[i + width] = "*"
                     /\ atom.kind \in {"char", "any"}
         IN  <<[kind |-> atom.kind, ch |-> atom.ch, star |-> star]>>
             \o Terms(source, i + width + (IF star THEN 1 ELSE 0))

\* One character against one term.
TermAccepts(term, c) ==
    IF term.kind = "any" THEN c \notin LineTerminators
    ELSE term.kind = "char" /\ term.ch = c

\* The terms from t on match str from position j on (positions from 1).
RECURSIVE MatchFrom(_, _, _, _)
MatchFrom(terms, t, str, j) ==
    IF t > Len(terms) THEN TRUE
    ELSE LET term == terms[t]
         IN  IF term.kind = "start" THEN j = 1 /\ MatchFrom(terms, t + 1, str, j)
             ELSE IF term.kind = "end"
                  THEN j = Len(str) + 1 /\ MatchFrom(terms, t + 1, str, j)
             ELSE IF term.star
                  THEN \E k \in j..(Len(str) + 1) :
                          /\ \A m \in j..(k - 1) : TermAccepts(term, str[m])
                          /\ MatchFrom(terms, t + 1, str, k)
             ELSE /\ j <= Len(str)
                  /\ TermAccepts(term, str[j])
                  /\ MatchFrom(terms, t + 1, str, j + 1)

\* regex.test(str): a match starting anywhere in str.
RegexTest(source, str) ==
    \E j \in 1..(Len(str) + 1) : MatchFrom(Terms(source, 1), 1, str, j)

NoString == <<"^">>
NoServer == "undefined"

GlobStart ==
    [pattern |-> NoString, regex |-> NoString,
     tested |-> NoString, matched |-> FALSE, pc |-> "idle"]

GlobInit == globState = NotConstructed

RouterStart ==
    [compiled |-> <<>>, toolName |-> NoString,
     resolved |-> NoServer, pc |-> "idle"]

RouterInit == routerState = NotConstructed

\* const regex = globToRegex(glob)
CompileGlob(glob) ==
    /\ globState.pc = "idle"
    /\ globState' = [GlobStart EXCEPT !.pattern = glob,
                                      !.regex = globToRegex(glob),
                                      !.pc = "compiled"]
    /\ UNCHANGED exceptGlob

\* regex.test(str)
TestGlob(str) ==
    /\ globState.pc = "compiled"
    /\ globState' = [globState EXCEPT
                        !.tested = str,
                        !.matched = RegexTest(globState.regex, str),
                        !.pc = "tested"]
    /\ UNCHANGED exceptGlob

GlobNext ==
    \/ \E glob \in Patterns : CompileGlob(glob)
    \/ \E str \in Names : TestGlob(str)

\* The constructor's this.compiled = rules.map(...)
RouterCompile(rules) ==
    [i \in 1..Len(rules) |-> [regex |-> globToRegex(rules[i].pattern),
                              server |-> rules[i].server]]

\* new Router(rules)
Router(rules) ==
    /\ routerState.pc = "idle"
    /\ routerState' = [RouterStart EXCEPT !.compiled = RouterCompile(rules),
                                          !.pc = "constructed"]
    /\ UNCHANGED exceptRouter

\* The rule the loop of resolve returns at, among those that match.
FirstMatch_Last(matching) == CHOOSE i \in matching : \A j \in matching : j <= i
FirstMatch(matching) == CHOOSE i \in matching : \A j \in matching : i <= j

\* What Router.resolve(name) returns.
RouterResolve(compiled, name) ==
    LET matching == {i \in 1..Len(compiled) :
                        RegexTest(compiled[i].regex, name)}
    IN  IF matching = {} THEN NoServer
        ELSE compiled[FirstMatch(matching)].server

\* Router.resolve(name)
resolve(name) ==
    /\ routerState.pc = "constructed"
    /\ routerState' =
          [routerState EXCEPT
              !.toolName = name,
              !.resolved = RouterResolve(routerState.compiled, name),
              !.pc = "resolved"]
    /\ UNCHANGED exceptRouter

RouterNext ==
    \/ \E rules \in RuleLists : Router(rules)
    \/ \E name \in ToolNames : resolve(name)

----------------------------------------------------------------------------
\* Properties of the router.

\* C15: resolve returns the server of the lowest-index rule whose compiled
\* pattern matches the tool name and none when no rule matches, whatever
\* comes after that rule in the list.
C15_FirstMatchWins ==
    routerState.pc = "resolved" =>
        LET compiled == routerState.compiled
            hit(i) == RegexTest(compiled[i].regex, routerState.toolName)
        IN  /\ (\A i \in 1..Len(compiled) : ~hit(i))
                  => routerState.resolved = NoServer
            /\ \A i \in 1..Len(compiled) :
                  hit(i) /\ (\A j \in 1..(i - 1) : ~hit(j))
                     => routerState.resolved = compiled[i].server

\* "*" before "a", with different servers, resolving "a".
C15_Witness ==
    /\ routerState.pc = "resolved"
    /\ routerState.compiled =
          <<[regex |-> globToRegex(<<"*">>), server |-> "first"],
            [regex |-> globToRegex(<<"a">>), server |-> "second"]>>
    /\ routerState.toolName = <<"a">>
    /\ routerState.resolved = "first"

\* The glob semantics: * covers any run of characters, ? exactly one
\* character, any other pattern character itself; glob from position i on
\* against str from position j on.
RECURSIVE GlobCovers(_, _, _, _)
GlobCovers(glob, i, str, j) ==
    IF i > Len(glob) THEN j = Len(str) + 1
    ELSE IF glob[i] = "*"
         THEN \E k \in j..(Len(str) + 1) : GlobCovers(glob, i + 1, str, k)
    ELSE /\ j <= Len(str)
         /\ glob[i] = "?" \/ glob[i] = str[j]
         /\ GlobCovers(glob, i + 1, str, j + 1)

\* C16: the compiled pattern matches a name exactly when the whole name is
\* covered by the pattern, * standing for any run of characters, ? for
\* exactly one character and every other character for itself.
C16_GlobSemantics ==
    globState.pc = "tested" =>
        (globState.matched
            <=> GlobCovers(globState.pattern, 1, globState.tested, 1))

(***************************************************************************)
(* ------------------------------- Filter ------------------------------- *)
(* filter(opts).  An absent list is has... = FALSE; a present one may be   *)
(* empty.  The inner result is what next() resolves to.                    *)
(***************************************************************************)
FilterPatterns == SeqsUpTo(RulePatternChars, MaxRulePatternLen)
FilterLists == SeqsUpTo(FilterPatterns, MaxFilterEntries)
FilterOpts ==
    {opts \in [hasAllow : BOOLEAN, allow : FilterLists,
               hasDeny : BOOLEAN, deny : FilterLists] :
        /\ ~opts.hasAllow => opts.allow = <<>>
        /\ ~opts.hasDeny => opts.deny = <<>>}

\* array.includes(item)
includes(array, item) == \E i \in 1..Len(array) : array[i] = item

NoFilterResult == [isError |-> FALSE, text |-> "none"]
InnerResult == [isError |-> FALSE, text |-> "inner"]

FilterStart ==
    [opts |-> [hasAllow |-> FALSE, allow |-> <<>>,
               hasDeny |-> FALSE, deny |-> <<>>],
     tool |-> NoString, result |-> NoFilterResult,
     nextCalled |-> FALSE, pc |-> "idle"]

FilterInit == filterState = NotConstructed

filter(opts) ==
    /\ filterState.pc = "idle"
    /\ filterState' = [FilterStart EXCEPT !.opts = opts, !.pc = "created"]
    /\ UNCHANGED exceptFilter

\* The middleware is called with ctx.toolName = name and a next that
\* resolves to the inner result.
FilterCalled(name) ==
    /\ filterState.pc = "created"
    /\ LET opts == filterState.opts
           called == [filterState EXCEPT !.tool = name, !.pc = "called"]
       IN  filterState' =
              IF opts.hasDeny /\ includes(opts.deny, name)
              THEN [called EXCEPT
                       !.result = [isError |-> TRUE, text |-> "denied"],
                       !.nextCalled = FALSE]
              ELSE IF opts.hasAllow /\ ~includes(opts.allow, name)
              THEN [called EXCEPT
                       !.result = [isError |-> TRUE, text |-> "not allowed"],
                       !.nextCalled = FALSE]
              ELSE [called EXCEPT !.result = InnerResult,
                                  !.nextCalled = TRUE]
    /\ UNCHANGED exceptFilter

FilterNext ==
    \/ \E opts \in FilterOpts : filter(opts)
    \/ \E name \in ToolNames : FilterCalled(name)

----------------------------------------------------------------------------
\* Properties of the filter middleware.

\* Some pattern of the list covers the name, as a glob.
SomeGlobCovers(list, name) ==
    \E i \in 1..Len(list) : GlobCovers(list[i], 1, name, 1)

\* C17: the entries of deny and allow are glob patterns: a call whose tool
\* name is covered by a deny pattern, or by no allow pattern when allow is
\* present, gets a synthesized error result without next being called, deny
\* first; any other call is passed to next.
C17_FilterMatchesGlobs ==
    filterState.pc = "called" =>
        LET opts == filterState.opts
            denied == /\ opts.hasDeny
                      /\ SomeGlobCovers(opts.deny, filterState.tool)
            notAllowed == /\ opts.hasAllow
                          /\ ~SomeGlobCovers(opts.allow, filterState.tool)
        IN  /\ denied =>
                 /\ filterState.result = [isError |-> TRUE, text |-> "denied"]
                 /\ ~filterState.nextCalled
            /\ ~denied /\ notAllowed =>
                 /\ filterState.result =
                       [isError |-> TRUE, text |-> "not allowed"]
                 /\ ~filterState.nextCalled
            /\ ~denied /\ ~notAllowed =>
                 /\ filterState.result = InnerResult
                 /\ filterState.nextCalled

(***************************************************************************)
(* ------------------------------ Cache key ----------------------------- *)
(* JSON.stringify({ tool: ctx.toolName, args: ctx.arguments }).  An object *)
(* is the sequence of its properties in insertion order, which is the      *)
(* order JSON.stringify writes them in (the property names of the model    *)
(* are not integer-like); a string of JSON text is the sequence of its     *)
(* tokens.                                                                 *)
(***************************************************************************)
JNumber(n) == [type |-> "number", num |-> n, items |-> <<>>]
JArray(numbers) == [type |-> "array", num |-> 0, items |-> numbers]

ArgNames == {"x", "y"}
ArgValues == {JNumber(1), JArray(<<1, 2>>), JArray(<<2, 1>>)}
Tools == {"search", "fetch"}

\* The objects with at most one property per name.
Arguments ==
    {args \in SeqsUpTo([key : ArgNames, value : ArgValues],
                       Cardinality(ArgNames)) :
        \A i, j \in 1..Len(args) : i # j => args[i].key # args[j].key}

\* parts[1], sep, parts[2], ... as one sequence
Join(parts, sep) ==
    LET F[i \in 0..Len(parts)] ==
            IF i = 0 THEN <<>>
            ELSE IF i = 1 THEN parts[1]
            ELSE F[i - 1] \o <<sep>> \o parts[i]
    IN  F[Len(parts)]

Quoted(str) == <<"\"", str, "\"">>

StringifyValue(value) ==
    IF value.type = "number" THEN <<ToString(value.num)>>
    ELSE <<"[">>
         \o Join([i \in 1..Len(value.items) |-> <<ToString(value.items[i])>>],
                 ",")
         \o <<"]">>

\* The properties are written in the order the object holds them.
PropertyOrder(object) == [i \in 1..Len(object) |-> i]

StringifyObject(object) ==
    LET order == PropertyOrder(object)
    IN  <<"{">>
        \o Join([r \in 1..Len(object) |->
                    Quoted(object[order[r]].key) \o <<":">>
                    \o StringifyValue(object[order[r]].value)],
                ",")
        \o <<"}">>

\* const key = JSON.stringify({ tool: ctx.toolName, args: ctx.arguments })
CacheKey(tool, args) ==
    <<"{">> \o Quoted("tool") \o <<":">> \o Quoted(tool) \o <<",">>
    \o Quoted("args") \o <<":">> \o StringifyObject(args) \o <<"}">>

NotKeyed == [tool |-> "none", args |-> <<>>, key |-> <<>>]

KeyInit == keyState = [first |-> NotKeyed, second |-> NotKeyed]

\* The cache middleware computes the key of a call.
ComputeKey(tool, args) ==
    /\ keyState.second = NotKeyed
    /\ LET keyed == [tool |-> tool, args |-> args,
                     key |-> CacheKey(tool, args)]
       IN  keyState' = IF keyState.first = NotKeyed
                       THEN [keyState EXCEPT !.first = keyed]
                       ELSE [keyState EXCEPT !.second = keyed]
    /\ UNCHANGED exceptKey

KeyNext ==
    \E tool \in Tools, args \in Arguments : ComputeKey(tool, args)

----------------------------------------------------------------------------
\* Properties of the cache key.

\* The same properties with the same values, in whatever order; the
\* elements of an array in the same order.
SameUpToKeyOrder(a, b) ==
    /\ Len(a) = Len(b)
    /\ \A i \in 1..Len(a) : \E j \in 1..Len(b) : a[i] = b[j]

\* C20: the keys of two calls are equal exactly when the tool is the same
\* and the arguments are the same up to the order of the object's
\* properties; the order of the elements of an array counts.
C20_KeyIsCanonical ==
    keyState.second # NotKeyed =>
        (keyState.first.key = keyState.second.key
            <=> /\ keyState.first.tool = keyState.second.tool
                /\ SameUpToKeyOrder(keyState.first.args, keyState.second.args))

(***************************************************************************)
(* -------------------------------- Cache ------------------------------- *)
(* cache(opts) with the default store.  The calls go through the           *)
(* middleware one after the other; each stops at its awaits (store.get,    *)
(* next, store.set).  A result is told apart by the invocation of next     *)
(* that produced it.                                                       *)
(***************************************************************************)
MsPerSecond == 1000

MaxSizes == {1, 2}
CacheOpts == [ttl : 0..MaxTtl, maxSize : MaxSizes]
NoOpts == [ttl |-> -1, maxSize |-> -1]

CacheTool == "search"
CacheArguments ==
    {<<[key |-> "x", value |-> JNumber(1)], [key |-> "y", value |-> JNumber(1)]>>,
     <<[key |-> "y", value |-> JNumber(1)], [key |-> "x", value |-> JNumber(1)]>>}

\* undefined, where a result is expected
Undefined == [isError |-> FALSE, from |-> 0]
Never == -1

\* Map operations of MemoryCacheStore.store
StoreHas(store, key) == \E i \in 1..Len(store) : store[i].key = key
StoreIndex(store, key) == CHOOSE i \in 1..Len(store) : store[i].key = key
StoreDelete(store, key) == SelectSeq(store, LAMBDA entry : entry.key # key)

\* entry.expiresAt <= Date.now()
Expired_StrictlyPast(entry, now) == entry.expiresAt < now
Expired(entry, now) == entry.expiresAt <= now

\* MemoryCacheStore.get: what it returns and what it leaves in the store.
StoreGet(store, key, now) ==
    IF ~StoreHas(store, key)
    THEN [value |-> Undefined, store |-> store]
    ELSE LET entry == store[StoreIndex(store, key)]
         IN  IF Expired(entry, now)
             THEN [value |-> Undefined, store |-> StoreDelete(store, key)]
             ELSE [value |-> entry.result, store |-> store]

\* MemoryCacheStore.set: the store it leaves.
StoreSet_EvictNewest(store, key, value, ttl, now, maxSize) ==
    LET kept == IF Len(store) >= maxSize /\ ~StoreHas(store, key)
                THEN SubSeq(store, 1, Len(store) - 1)
                ELSE store
    IN  Append(StoreDelete(kept, key),
               [key |-> key, result |-> value,
                expiresAt |-> now + ttl * MsPerSecond])
StoreSet(store, key, value, ttl, now, maxSize) ==
    LET kept == IF Len(store) >= maxSize /\ ~StoreHas(store, key)
                THEN Tail(store)
                ELSE store
        entry == [key |-> key, result |-> value,
                  expiresAt |-> now + ttl * MsPerSecond]
    IN  IF StoreHas(kept, key)
        THEN [kept EXCEPT ![StoreIndex(kept, key)] = entry]
        ELSE Append(kept, entry)

\* if (cached !== undefined): the call is a hit
IsHit_Never(cached) == FALSE
IsHit(cached) == cached # Undefined

\* if (!result.isError): the result is stored
ShouldStore_Always(result) == TRUE
ShouldStore(result) == ~result.isError

NoCacheCall ==
    [pc |-> "idle", args |-> <<>>, key |-> <<>>, at |-> Never,
     cached |-> Undefined, result |-> Undefined, setAt |-> Never]

CacheStart ==
    [opts |-> NoOpts, store |-> <<>>, now |-> 0,
     call |-> NoCacheCall, history |-> <<>>]

CacheInit == cacheState = NotConstructed

\* The invocations of next in the calls that returned.
NextCalls(history) ==
    Cardinality({i \in 1..Len(history) : history[i].nextCalled})

\* The middleware returns result: the state it leaves.
Returned(state, nextCalled, result) ==
    [state EXCEPT
        !.history = Append(@, [args |-> state.call.args,
                               key |-> state.call.key,
                               at |-> state.call.at,
                               nextCalled |-> nextCalled,
                               result |-> result,
                               setAt |-> state.call.setAt]),
        !.call = NoCacheCall]

cache(opts) ==
    /\ cacheState = NotConstructed
    /\ cacheState' = [CacheStart EXCEPT !.opts = opts]
    /\ UNCHANGED exceptCache

\* The middleware is called: the key is computed and store.get runs.
CacheCalled(args) ==
    /\ cacheState # NotConstructed
    /\ cacheState.call.pc = "idle"
    /\ Len(cacheState.history) < MaxCalls
    /\ LET key == CacheKey(CacheTool, args)
           got == StoreGet(cacheState.store, key, cacheState.now)
       IN  cacheState' =
              [cacheState EXCEPT
                  !.store = got.store,
                  !.call = [NoCacheCall EXCEPT !.pc = "get", !.args = args,
                                               !.key = key,
                                               !.at = cacheState.now,
                                               !.cached = got.value]]
    /\ UNCHANGED exceptCache

\* await store.get(key) resumes: a hit returns, a miss calls next().
GetResumes ==
    /\ cacheState # NotConstructed
    /\ cacheState.call.pc = "get"
    /\ cacheState' = IF IsHit(cacheState.call.cached)
                     THEN Returned(cacheState, FALSE, cacheState.call.cached)
                     ELSE [cacheState EXCEPT !.call.pc = "next"]
    /\ UNCHANGED exceptCache

\* await next() resumes with the inner result, which is stored, with
\* store.set, unless it is an error.
NextSettles(isError) ==
    /\ cacheState # NotConstructed
    /\ cacheState.call.pc = "next"
    /\ LET result == [isError |-> isError,
                      from |-> NextCalls(cacheState.history) + 1]
       IN  cacheState' =
              IF ShouldStore(result)
              THEN [cacheState EXCEPT
                       !.store = StoreSet(@, cacheState.call.key, result,
                                          cacheState.opts.ttl, cacheState.now,
                                          cacheState.opts.maxSize),
                       !.call.pc = "set",
                       !.call.result = result,
                       !.call.setAt = cacheState.now]
              ELSE Returned(cacheState, TRUE, result)
    /\ UNCHANGED exceptCache

\* await store.set(...) resumes and the middleware returns the result.
SetResumes ==
    /\ cacheState # NotConstructed
    /\ cacheState.call.pc = "set"
    /\ cacheState' = Returned(cacheState, TRUE, cacheState.call.result)
    /\ UNCHANGED exceptCache

\* Time passes.
Tick ==
    /\ cacheState # NotConstructed
    /\ cacheState.now < MaxClock * MsPerSecond
    /\ cacheState' = [cacheState EXCEPT !.now = @ + MsPerSecond]
    /\ UNCHANGED exceptCache

CacheNext ==
    \/ \E opts \in CacheOpts : cache(opts)
    \/ \E args \in CacheArguments : CacheCalled(args)
    \/ GetResumes
    \/ \E isError \in BOOLEAN : NextSettles(isError)
    \/ SetResumes
    \/ Tick

----------------------------------------------------------------------------
\* Properties of the cache middleware.

\* C18: of two calls with the same arguments, the first of which called
\* next and got a non-error result, the second issued before ttl seconds
\* have passed since that result was stored, and no call between them
\* having stored anything, the second does not call next and returns the
\* result of the first.
C18_SecondCallIsHit ==
    cacheState # NotConstructed =>
        \A i, j \in 1..Len(cacheState.history) :
            LET first == cacheState.history[i]
                second == cacheState.history[j]
            IN  /\ i < j
                /\ first.args = second.args
                /\ first.nextCalled
                /\ ~first.result.isError
                /\ second.at < first.setAt + cacheState.opts.ttl * MsPerSecond
                /\ \A k \in (i + 1)..(j - 1) :
                      cacheState.history[k].setAt = Never
                => /\ ~second.nextCalled
                   /\ second.result = first.result

C18_Witness ==
    /\ cacheState # NotConstructed
    /\ Len(cacheState.history) = 2
    /\ LET first == cacheState.history[1]
           second == cacheState.history[2]
       IN  /\ first.args = second.args
           /\ first.nextCalled
           /\ ~first.result.isError
           /\ ~second.nextCalled
           /\ second.result = first.result
           /\ second.at > first.setAt

\* C19: no entry of the store holds an error result and a call whose inner
\* result is an error does not call store.set; so when every inner result
\* is an error, every call calls next and the store stays empty.
C19_ErrorsNotCached ==
    cacheState # NotConstructed =>
        LET history == cacheState.history
        IN  /\ \A i \in 1..Len(cacheState.store) :
                  ~cacheState.store[i].result.isError
            /\ \A i \in 1..Len(history) :
                  history[i].result.isError =>
                      /\ history[i].nextCalled
                      /\ history[i].setAt = Never
            /\ (\A i \in 1..Len(history) : history[i].result.isError)
               /\ cacheState.call.pc = "idle"
                  => /\ cacheState.store = <<>>
                     /\ NextCalls(history) = Len(history)

C19_Witness ==
    /\ cacheState # NotConstructed
    /\ Len(cacheState.history) = 2
    /\ LET first == cacheState.history[1]
           second == cacheState.history[2]
       IN  /\ first.args = second.args
           /\ first.result.isError
           /\ second.result.isError
           /\ second.nextCalled
           /\ second.at < first.at + cacheState.opts.ttl * MsPerSecond

(***************************************************************************)
(* --------------------------- McpProxy.callTool ------------------------ *)
(* One proxy and one callTool.  callTool runs to its first await: the      *)
(* route and backend lookups, then the chain up to the first middleware    *)
(* that awaits or the handler's await of backend.callTool.  A middleware   *)
(* either returns or throws where it would return, before next() if it     *)
(* calls next() no time and after it otherwise, and none catches what      *)
(* next() rejects with, as filter and cache do not.                        *)
(***************************************************************************)
CallServers == {<<>>, <<"f">>, <<"s">>}

\* routing lists and the keys of config.servers
CallRoutings ==
    {<<>>,
     <<[pattern |-> <<"a">>, server |-> <<"f">>]>>,
     <<[pattern |-> <<"a">>, server |-> <<"f">>],
       [pattern |-> <<"*">>, server |-> <<"s">>]>>,
     <<[pattern |-> <<"a">>, server |-> <<"f">>],
       [pattern |-> <<"*">>, server |-> <<>>]>>}
CallBackends == {{<<"f">>}, {<<"f">>, <<"s">>}, {<<>>, <<"f">>}}
CallToolNames == {<<"a">>, <<"a", "a">>}
CallMiddleware == [calls : {0, 1}, throws : BOOLEAN]
ProxyConfigs ==
    [routing : CallRoutings, servers : CallBackends,
     middleware : UNION {[1..n -> CallMiddleware] : n \in 0..MaxCallChainLen}]

\* What backend.callTool does: resolve with a result, or throw an Error
\* with this message or a value that is not an Error.
BackendOutcomes ==
    {[thrown |-> FALSE, isError |-> FALSE, isErrorObject |-> FALSE, message |-> ""],
     [thrown |-> FALSE, isError |-> TRUE, isErrorObject |-> FALSE, message |-> ""],
     [thrown |-> TRUE, isError |-> FALSE, isErrorObject |-> TRUE, message |-> "boom"],
     [thrown |-> TRUE, isError |-> FALSE, isErrorObject |-> TRUE, message |-> ""],
     [thrown |-> TRUE, isError |-> FALSE, isErrorObject |-> FALSE, message |-> "boom"]}
NothingThrown ==
    [thrown |-> FALSE, isError |-> FALSE, isErrorObject |-> FALSE, message |-> "none"]

\* A settled promise of the chain: a result, with who produced it, the
\* post-phases it went through and its text, or a rejection.
CallResult(who, isError, text) ==
    [origin |-> who, post |-> <<>>, isError |-> isError, text |-> text,
     rejected |-> FALSE]
Rejection(who) ==
    [origin |-> who, post |-> <<>>, isError |-> FALSE, text |-> <<"thrown">>,
     rejected |-> TRUE]
NotSettled == CallResult(-1, FALSE, <<>>)

\* The origin of a result returned by callTool before the chain.
Lookup == -2

CallStart ==
    [pc |-> "idle", compiled |-> <<>>, backends |-> {},
     middleware |-> <<>>, throws |-> <<>>, toolName |-> <<>>,
     index |-> 0, stack |-> <<>>, log |-> <<>>,
     backendCalls |-> 0, thrown |-> NothingThrown,
     result |-> NotSettled]

CallInit == callState = NotConstructed

\* if (!serverName): undefined and the empty string are falsy
Falsy(serverName) == serverName = NoServer \/ serverName = <<>>

\* extractErrorMessage(error)
extractErrorMessage(error) ==
    IF error.isErrorObject /\ error.message # ""
    THEN error.message
    ELSE IF error.isErrorObject THEN "Error" ELSE error.message

\* The two lookups of callTool: the result callTool returns at once, or
\* NotSettled when the call goes on to the chain.
Lookups(compiled, backends, toolName) ==
    LET serverName == RouterResolve(compiled, toolName)
    IN  IF Falsy(serverName)
        THEN CallResult(Lookup, TRUE,
                        <<"No routing rule matches tool ", toolName>>)
        ELSE IF serverName \notin backends
             THEN CallResult(Lookup, TRUE,
                             <<"Backend ", serverName, " not found">>)
             ELSE NotSettled

\* The final handler: what it returns for what backend.callTool did.
HandlerResult_Rethrow(outcome) ==
    IF outcome.thrown
    THEN Rejection(FinalHandler)
    ELSE CallResult(FinalHandler, outcome.isError, <<"backend">>)
HandlerResult(outcome) ==
    IF outcome.thrown
    THEN CallResult(FinalHandler, TRUE,
                    <<"Backend error: ", extractErrorMessage(outcome)>>)
    ELSE CallResult(FinalHandler, outcome.isError, <<"backend">>)

\* next() of the chain, counting the handler's call of backend.callTool.
CallNext(state, stk) ==
    LET after == next(state, stk)
    IN  IF Top(after.stack).mw = FinalHandler
        THEN [after EXCEPT !.backendCalls = @ + 1]
        ELSE after

\* A promise of the chain settles: its awaiter resumes, or callTool's
\* promise settles the same way.
CallDeliver(state, stk, result) ==
    IF stk = <<>>
    THEN [state EXCEPT !.stack = <<>>, !.result = result,
                       !.pc = IF result.rejected THEN "rejected" ELSE "done"]
    ELSE Deliver(state, stk, result)

\* new McpProxy(config)
McpProxy(config) ==
    /\ callState.pc = "idle"
    /\ callState' =
          [CallStart EXCEPT
              !.compiled = RouterCompile(config.routing),
              !.backends = config.servers,
              !.middleware = [i \in 1..Len(config.middleware) |->
                                 config.middleware[i].calls],
              !.throws = [i \in 1..Len(config.middleware) |->
                             config.middleware[i].throws],
              !.pc = "constructed"]
    /\ UNCHANGED exceptCall

\* proxy.callTool(toolName, args)
callTool(toolName) ==
    /\ callState.pc = "constructed"
    /\ LET found == Lookups(callState.compiled, callState.backends, toolName)
           called == [callState EXCEPT !.toolName = toolName]
       IN  callState' =
              IF found # NotSettled
              THEN [called EXCEPT !.result = found, !.pc = "done"]
              ELSE CallNext([called EXCEPT !.pc = "running"], <<>>)
    /\ UNCHANGED exceptCall

\* A middleware reaches its next() call.
CallMiddlewareCallsNext ==
    /\ callState.pc = "running"
    /\ Top(callState.stack).mw # FinalHandler
    /\ Top(callState.stack).calls > 0
    /\ callState' =
          CallNext(callState,
                   [callState.stack EXCEPT ![Len(callState.stack)].calls = @ - 1])
    /\ UNCHANGED exceptCall

\* await backend.callTool(...) settles and the handler returns.
BackendSettles(outcome) ==
    /\ callState.pc = "running"
    /\ Top(callState.stack).mw = FinalHandler
    /\ callState' =
          CallDeliver([callState EXCEPT
                          !.thrown = IF outcome.thrown THEN outcome ELSE @],
                      Pop(callState.stack), HandlerResult(outcome))
    /\ UNCHANGED exceptCall

\* A middleware with no next() call left settles: it throws what its
\* await of next() threw, or throws of its own, or returns.
CallMiddlewareSettles ==
    /\ callState.pc = "running"
    /\ Top(callState.stack).mw # FinalHandler
    /\ Top(callState.stack).calls = 0
    /\ LET frame == Top(callState.stack)
           result == IF frame.got # NoResult /\ frame.got.rejected
                     THEN frame.got
                     ELSE IF callState.throws[frame.mw] THEN Rejection(frame.mw)
                     ELSE IF frame.got = NoResult
                          THEN CallResult(frame.mw, FALSE, <<"middleware">>)
                          ELSE Rewritten(frame.got, frame.mw)
           logged == [callState EXCEPT
                         !.log = Append(@, [phase |-> IF result.rejected
                                                      THEN "throw" ELSE "post",
                                            mw |-> frame.mw])]
       IN  callState' = CallDeliver(logged, Pop(callState.stack), result)
    /\ UNCHANGED exceptCall

McpProxyNext ==
    \/ \E config \in ProxyConfigs : McpProxy(config)
    \/ \E toolName \in CallToolNames : callTool(toolName)
    \/ CallMiddlewareCallsNext
    \/ \E outcome \in BackendOutcomes : BackendSettles(outcome)
    \/ CallMiddlewareSettles


----------------------------------------------------------------------------
\* Properties of McpProxy.callTool.

CallStarted == callState.pc \in {"running", "done", "rejected"}

\* callTool returned this result without running a middleware or calling a
\* backend.
ReturnedAtOnce(text) ==
    /\ callState.pc = "done"
    /\ callState.result.isError
    /\ ~callState.result.rejected
    /\ callState.result.text = text
    /\ callState.log = <<>>
    /\ callState.backendCalls = 0

\* C23: when no routing rule matches the tool name callTool returns the
\* error result "No routing rule matches tool ...", and when the first
\* matching rule names a server that is not among the backends it returns
\* the error result "Backend ... not found"; either way no middleware is
\* run and no backend is called.
C23_LookupErrors ==
    CallStarted =>
        LET serverName == RouterResolve(callState.compiled, callState.toolName)
        IN  /\ serverName = NoServer =>
                  ReturnedAtOnce(<<"No routing rule matches tool ",
                                   callState.toolName>>)
            /\ serverName # NoServer /\ serverName \notin callState.backends =>
                  ReturnedAtOnce(<<"Backend ", serverName, " not found">>)

\* n, n - 1, ..., m
Descending(n, m) == [i \in 1..(n - m + 1) |-> n + 1 - i]

\* The result the handler returns when backend.callTool threw, after the
\* post-phases of the middleware n down to m.
BackendErrorThrough(n, m) ==
    [CallResult(FinalHandler, TRUE,
                <<"Backend error: ", extractErrorMessage(callState.thrown)>>)
        EXCEPT !.post = Descending(n, m)]

\* C24: once backend.callTool has thrown, the handler has returned the
\* error result "Backend error: <message>": the middleware awaiting it has
\* received that result rewritten by the post-phases of the middleware
\* below it, callTool's promise resolves with it rewritten by every
\* post-phase, innermost first, and a rejection, if any, was thrown by a
\* middleware and not by the handler.
C24_BackendErrorIsResult ==
    callState # NotConstructed /\ callState.thrown # NothingThrown =>
            LET n == Len(callState.middleware)
                depth == Len(callState.stack)
            IN  /\ callState.backendCalls = 1
                /\ callState.pc = "running" =>
                      \/ Top(callState.stack).got = BackendErrorThrough(n, depth + 1)
                      \/ /\ Top(callState.stack).got.rejected
                         /\ Top(callState.stack).got.origin # FinalHandler
                /\ callState.pc = "done" =>
                      callState.result = BackendErrorThrough(n, 1)
                /\ callState.pc = "rejected" =>
                      callState.result.origin # FinalHandler

C24_Witness ==
    /\ callState.pc = "done"
    /\ callState.thrown.thrown
    /\ callState.thrown.message = "boom"
    /\ Len(callState.middleware) = 2
    /\ callState.result.isError
    /\ callState.result.post = <<2, 1>>
    /\ callState.result.text = <<"Backend error: ", "boom">>

\* C25: the promise callTool returns never rejects.
C25_NoRawException == callState.pc # "rejected"

(***************************************************************************)
(* ------------- McpProxy connect, refreshToolIndex and close ----------- *)
(* Every continuation of an await is a step of its own.  Several connect,  *)
(* refreshToolIndex and close calls may be in progress at once; each       *)
(* refreshToolIndex call has its own Map toolsByBackend and its own        *)
(* listTools calls, each close call its own close() calls of the backends. *)
(* A listTools call of a backend with cachedTools returns a resolved       *)
(* promise, a backend with neither cachedTools nor a client a rejected     *)
(* one; the others ask their server.  close() of a backend without a       *)
(* client awaits undefined.  The continuation of an await on a settled     *)
(* promise is a job at the end of the engine's job queue, and so are the   *)
(* reaction of Promise.all to each of its promises and the continuation    *)
(* of "await Promise.all".  The jobs run first in, first out, and before   *)
(* anything a server or a transport answers; connect, refreshToolIndex,    *)
(* close and invalidateToolCache may be called between any two jobs.       *)
(***************************************************************************)
IndexToolNames == {"t", "u"}
\* What the servers list, per backend: every one the tool t, the first
\* one the tool u as well, or the last one only the tool u.
IndexConfigs ==
    UNION {{[i \in 1..n |-> IF i = 1 THEN <<"t", "u">> ELSE <<"t">>],
            [i \in 1..n |-> IF i = n THEN <<"u">> ELSE <<"t">>]} :
           n \in 1..MaxBackends}
\* The backends whose config.url "new URL" does not accept: none, or the
\* first one.
InvalidUrls == {{}, {1}}

\* A refreshToolIndex or close call of the proxy: the backends whose
\* client has not answered, the Map of a refresh in insertion order,
\* "waiting", "resolved" or "rejected", and for a close call whether
\* neither connect nor refreshToolIndex has been called from outside since.
ProxyCall(kind, asked, status) ==
    [kind |-> kind, pending |-> asked, toolsByBackend |-> <<>>,
     status |-> status, quiet |-> kind = "close"]

\* A job of the queue: the continuation of "await client.listTools()" or
\* of "await this.client?.close()" for one backend of a call, the reaction
\* of the call's Promise.all to that backend's promise, or the
\* continuation of "await Promise.all".
Job(r, kind, backend) == [call |-> r, job |-> kind, backend |-> backend]

\* The continuations queued by a call for these backends, in the order of
\* this.backends.
Continuations(state, r, settled) ==
    LET here == SelectSeq(state.backends, LAMBDA b : b \in settled)
    IN  [i \in 1..Len(here) |-> Job(r, "continuation", here[i])]

\* connects: the connect() calls waiting at "await Promise.all".
IndexStart ==
    [backends |-> <<>>, tools |-> <<>>, invalid |-> {},
     connected |-> {}, cached |-> {},
     calls |-> <<>>, queue |-> <<>>, toolIndex |-> <<>>, connects |-> 0]

IndexInit == indexState = NotConstructed

\* client.listTools() mapped to ToolInfo: name and backend.
ToolInfos(backend, names) ==
    [i \in 1..Len(names) |-> [name |-> names[i], backend |-> backend]]

\* The tools of the lists in this order, one after the other.
Concat(lists) ==
    LET F[i \in 0..Len(lists)] ==
            IF i = 0 THEN <<>> ELSE F[i - 1] \o lists[i].tools
    IN  F[Len(lists)]

\* aggregateTools(toolsByBackend): the first tool of each name, in the
\* iteration order of the Map.
aggregateTools(toolsByBackend) ==
    LET all == Concat(toolsByBackend)
        keep == {i \in 1..Len(all) :
                    \A j \in 1..(i - 1) : all[j].name # all[i].name}
        F[i \in 0..Len(all)] ==
            IF i = 0 THEN <<>>
            ELSE IF i \in keep THEN Append(F[i - 1], all[i]) ELSE F[i - 1]
    IN  F[Len(all)]

\* toolIndex.clear(), then toolIndex.set(tool.name, tool) for each tool: a
\* name set again keeps its place and takes the later tool.
IndexOf(aggregated) ==
    LET F[i \in 0..Len(aggregated)] ==
            IF i = 0 THEN <<>>
            ELSE LET tool == aggregated[i]
                     at == {k \in 1..Len(F[i - 1]) : F[i - 1][k].name = tool.name}
                 IN  IF at = {} THEN Append(F[i - 1], tool)
                     ELSE [F[i - 1] EXCEPT ![CHOOSE k \in at : TRUE] = tool]
    IN  F[Len(aggregated)]

\* toolsByBackend.set(name, tools)
MapSet(map, backend, tools) ==
    IF \E i \in 1..Len(map) : map[i].backend = backend
    THEN [i \in 1..Len(map) |->
             IF map[i].backend = backend
             THEN [backend |-> backend, tools |-> tools]
             ELSE map[i]]
    ELSE Append(map, [backend |-> backend, tools |-> tools])

BackendSet(state) == {state.backends[i] : i \in 1..Len(state.backends)}

\* The refreshToolIndex calls and the close calls made so far.
CallsOf(state, kind) ==
    {r \in 1..Len(state.calls) : state.calls[r].kind = kind}

\* The job queue is empty.
NoMicrotask(state) == state.queue = <<>>

\* The job at the head of the queue is this one of call r.
NextMicrotask(state, r, kind) ==
    /\ state.queue # <<>>
    /\ Head(state.queue).call = r
    /\ Head(state.queue).job = kind

\* The continuation behind "await Promise.all(...)" of call r is the job
\* at the head of the queue.
NextResume(state, r) == NextMicrotask(state, r, "resume")

\* The promise of one backend has been fulfilled: a reaction of the
\* call's Promise.all joins the queue.  The state it leaves.
Fulfilled(state, r, backend) ==
    IF state.calls[r].status = "waiting"
    THEN [state EXCEPT !.queue = Append(@, Job(r, "element", backend))]
    ELSE state

\* A close() call is kept while a backend of it is closing and, once it
\* has resolved, until connect() or refreshToolIndex() is called from
\* outside.
Kept(call) ==
    \/ call.kind = "refresh"
    \/ call.pending # {}
    \/ call.status = "waiting"
    \/ call.status = "resolved" /\ call.quiet
Forget(state) ==
    LET place(r) == Cardinality({q \in 1..r : Kept(state.calls[q])})
    IN  [state EXCEPT
            !.calls = SelectSeq(@, Kept),
            !.queue = [i \in 1..Len(@) |-> [@[i] EXCEPT !.call = place(@)]]]

\* connect() or refreshToolIndex() is called from outside.
CalledAgain(state) ==
    Forget([state EXCEPT !.calls = [r \in 1..Len(state.calls) |->
                                       [state.calls[r] EXCEPT !.quiet = FALSE]]])

\* refreshToolIndex up to "await Promise.all(listPromises)": listTools of
\* every backend is called.  With a backend that has neither cachedTools
\* nor a client the call is going to reject and its Map is never read.
\* The state it leaves.
RefreshStarted(state) ==
    LET all == BackendSet(state)
        answered == all \cap state.cached
        asked == (all \ state.cached) \cap state.connected
        r == Len(state.calls) + 1
    IN  IF all \subseteq state.cached \cup state.connected
        THEN [state EXCEPT
                 !.calls = Append(@, ProxyCall("refresh", asked, "waiting")),
                 !.queue = @ \o Continuations(state, r, answered)]
        ELSE [state EXCEPT
                 !.calls = Append(@, ProxyCall("refresh", asked, "rejected"))]

\* A listTools promise of call r resolves with the backend's tools: the
\* continuation puts them into the Map of the call, unless the call has
\* been rejected.  The state it leaves.
Answered_Piecewise(state, r, backend) ==
    LET map == MapSet(state.calls[r].toolsByBackend, backend,
                      ToolInfos(backend, state.tools[backend]))
    IN  [state EXCEPT !.calls[r].toolsByBackend = map,
                      !.toolIndex = IndexOf(aggregateTools(map))]
Answered(state, r, backend) ==
    IF state.calls[r].status = "waiting"
    THEN [state EXCEPT
             !.calls[r].toolsByBackend =
                 MapSet(@, backend, ToolInfos(backend, state.tools[backend]))]
    ELSE state

\* HttpBackendClient.close() after its await: client, transport and
\* cachedTools are unset.  The state it leaves.
ClientUnset(state, backend) ==
    [state EXCEPT !.connected = @ \ {backend}, !.cached = @ \ {backend}]

\* new McpProxy(config): a client per backend, none connected
IndexProxy(listings, invalid) ==
    /\ indexState = NotConstructed
    /\ indexState' = [IndexStart EXCEPT !.backends = [i \in 1..Len(listings) |-> i],
                                        !.tools = listings,
                                        !.invalid = invalid]
    /\ UNCHANGED exceptIndex

\* proxy.connect() up to "await Promise.all(connectPromises)": connect() of
\* every backend is called, which sets its client unless "new URL" throws.
\* With such a backend proxy.connect() rejects without waiting for a
\* server.  Each waiting connect() is counted as a refreshToolIndex call
\* to come.
McpProxyConnect ==
    /\ indexState # NotConstructed
    /\ LET waits == BackendSet(indexState) \cap indexState.invalid = {}
       IN  /\ waits =>
                  indexState.connects + Cardinality(CallsOf(indexState, "refresh"))
                      < MaxRefreshes
           /\ indexState' =
                 [CalledAgain(indexState) EXCEPT
                     !.connected = @ \cup (BackendSet(indexState)
                                              \ indexState.invalid),
                     !.connects = IF waits THEN @ + 1 ELSE @]
    /\ UNCHANGED exceptIndex

\* "await Promise.all(connectPromises)" of a connect() call settles.  When
\* every backend's connect() has resolved, proxy.connect() goes on to
\* "await this.refreshToolIndex()"; when one has rejected, proxy.connect()
\* rejects and the clients stay set.
ConnectResumes(ok) ==
    /\ indexState # NotConstructed
    /\ NoMicrotask(indexState)
    /\ indexState.connects > 0
    /\ indexState' =
          IF ok
          THEN RefreshStarted([indexState EXCEPT !.connects = @ - 1])
          ELSE [indexState EXCEPT !.connects = @ - 1]
    /\ UNCHANGED exceptIndex

\* proxy.refreshToolIndex()
refreshToolIndex ==
    /\ indexState # NotConstructed
    /\ indexState.connects + Cardinality(CallsOf(indexState, "refresh"))
          < MaxRefreshes
    /\ indexState' = RefreshStarted(CalledAgain(indexState))
    /\ UNCHANGED exceptIndex

\* The continuation of a listTools call answered from cachedTools runs.
CachedAnswerDelivered(r) ==
    /\ indexState # NotConstructed
    /\ NextMicrotask(indexState, r, "continuation")
    /\ indexState.calls[r].kind = "refresh"
    /\ LET backend == Head(indexState.queue).backend
       IN  indexState' =
              Fulfilled(Answered([indexState EXCEPT !.queue = Tail(@)],
                                 r, backend),
                        r, backend)
    /\ UNCHANGED exceptIndex

\* client.listTools() of one backend resolves: cachedTools is set and the
\* continuation puts the tools into the Map.
ListToolsResolves(r, backend) ==
    /\ indexState # NotConstructed
    /\ NoMicrotask(indexState)
    /\ r \in CallsOf(indexState, "refresh")
    /\ backend \in indexState.calls[r].pending
    /\ indexState' =
          Fulfilled(Answered([indexState EXCEPT
                                 !.cached = @ \cup {backend},
                                 !.calls[r].pending = @ \ {backend}],
                             r, backend),
                    r, backend)
    /\ UNCHANGED exceptIndex

\* client.listTools() of one backend rejects: Promise.all and with it
\* refreshToolIndex reject; the other listTools calls go on.
ListToolsRejects(r, backend) ==
    /\ indexState # NotConstructed
    /\ NoMicrotask(indexState)
    /\ r \in CallsOf(indexState, "refresh")
    /\ backend \in indexState.calls[r].pending
    /\ indexState' = [indexState EXCEPT
                         !.calls[r].pending = @ \ {backend},
                         !.calls[r].toolsByBackend = <<>>,
                         !.calls[r].status = IF @ = "waiting" THEN "rejected"
                                             ELSE @]
    /\ UNCHANGED exceptIndex

\* The reaction of a call's Promise.all to one fulfilled promise runs:
\* with the last of them Promise.all resolves, and the continuation of
\* "await Promise.all" joins the queue.
PromiseAllReacts(r) ==
    /\ indexState # NotConstructed
    /\ NextMicrotask(indexState, r, "element")
    /\ LET rest == Tail(indexState.queue)
           last == /\ indexState.calls[r].pending = {}
                   /\ \A i \in 1..Len(rest) : rest[i].call # r
       IN  indexState' =
              [indexState EXCEPT
                  !.queue = IF last THEN Append(rest, Job(r, "resume", 0))
                            ELSE rest]
    /\ UNCHANGED exceptIndex

\* refreshToolIndex after its Promise.all: aggregateTools, clear(), and
\* set() of each tool.
RefreshResumes(r) ==
    /\ indexState # NotConstructed
    /\ NextResume(indexState, r)
    /\ indexState.calls[r].kind = "refresh"
    /\ indexState' =
          [indexState EXCEPT
              !.queue = Tail(@),
              !.toolIndex = IndexOf(aggregateTools(indexState.calls[r].toolsByBackend)),
              !.calls[r].toolsByBackend = <<>>,
              !.calls[r].status = "resolved"]
    /\ UNCHANGED exceptIndex

\* backend.invalidateToolCache()
invalidateToolCache(backend) ==
    /\ indexState # NotConstructed
    /\ backend \in indexState.cached
    /\ indexState' = [indexState EXCEPT !.cached = @ \ {backend}]
    /\ UNCHANGED exceptIndex

\* proxy.close() up to "await Promise.all(closePromises)": close() of
\* every backend is called; a backend with a client calls client.close(),
\* one without awaits undefined.
ProxyClose ==
    /\ indexState # NotConstructed
    /\ Cardinality(CallsOf(indexState, "close")) < MaxCloses
    /\ LET all == BackendSet(indexState)
           r == Len(indexState.calls) + 1
       IN  indexState' =
              [indexState EXCEPT
                  !.calls = Append(@, ProxyCall("close",
                                                all \cap indexState.connected,
                                                "waiting")),
                  !.queue = @ \o Continuations(indexState, r,
                                               all \ indexState.connected)]
    /\ UNCHANGED exceptIndex

\* close() of a backend that had no client goes on after "await undefined".
ClosedWithoutClient(r) ==
    /\ indexState # NotConstructed
    /\ NextMicrotask(indexState, r, "continuation")
    /\ indexState.calls[r].kind = "close"
    /\ LET backend == Head(indexState.queue).backend
       IN  indexState' =
              Fulfilled(ClientUnset([indexState EXCEPT !.queue = Tail(@)],
                                    backend),
                        r, backend)
    /\ UNCHANGED exceptIndex

\* "await this.client.close()" of one backend settles.  Resolved: its
\* client and cachedTools are unset.  Rejected: they stay, and Promise.all
\* and with it proxy.close() reject, the index as it was; the other
\* backends go on closing.
BackendCloses(r, backend, ok) ==
    /\ indexState # NotConstructed
    /\ NoMicrotask(indexState)
    /\ r \in CallsOf(indexState, "close")
    /\ backend \in indexState.calls[r].pending
    /\ indexState' =
          Forget(IF ok
                 THEN Fulfilled(ClientUnset([indexState EXCEPT
                                                !.calls[r].pending = @ \ {backend}],
                                            backend),
                                r, backend)
                 ELSE [indexState EXCEPT
                          !.calls[r].pending = @ \ {backend},
                          !.calls[r].quiet = FALSE,
                          !.calls[r].status = IF @ = "waiting" THEN "rejected"
                                              ELSE @])
    /\ UNCHANGED exceptIndex

\* proxy.close() after its Promise.all: this.toolIndex.clear()
CloseResumes(r) ==
    /\ indexState # NotConstructed
    /\ NextResume(indexState, r)
    /\ indexState.calls[r].kind = "close"
    /\ indexState' = Forget([indexState EXCEPT !.queue = Tail(@),
                                               !.toolIndex = <<>>,
                                               !.calls[r].status = "resolved"])
    /\ UNCHANGED exceptIndex

\* The places a call can have among the calls of a proxy.
CallIds == 1..(MaxRefreshes + MaxCloses)

IndexNext ==
    \/ \E listings \in IndexConfigs, invalid \in InvalidUrls :
          IndexProxy(listings, invalid)
    \/ McpProxyConnect
    \/ \E ok \in BOOLEAN : ConnectResumes(ok)
    \/ refreshToolIndex
    \/ \E r \in 1..MaxRefreshes : CachedAnswerDelivered(r)
    \/ \E r \in 1..MaxRefreshes, backend \in 1..MaxBackends :
          ListToolsResolves(r, backend)
    \/ \E r \in 1..MaxRefreshes, backend \in 1..MaxBackends :
          ListToolsRejects(r, backend)
    \/ \E r \in 1..MaxRefreshes : PromiseAllReacts(r)
    \/ \E r \in 1..MaxRefreshes : RefreshResumes(r)
    \/ \E backend \in 1..MaxBackends : invalidateToolCache(backend)

CloseNext ==
    \/ \E listings \in IndexConfigs, invalid \in InvalidUrls :
          IndexProxy(listings, invalid)
    \/ McpProxyConnect
    \/ \E ok \in BOOLEAN : ConnectResumes(ok)
    \/ refreshToolIndex
    \/ \E r \in CallIds : CachedAnswerDelivered(r)
    \/ \E r \in CallIds, backend \in 1..MaxBackends :
          ListToolsResolves(r, backend)
    \/ \E r \in CallIds, backend \in 1..MaxBackends :
          ListToolsRejects(r, backend)
    \/ \E r \in CallIds : PromiseAllReacts(r)
    \/ \E r \in CallIds : RefreshResumes(r)
    \/ \E backend \in 1..MaxBackends : invalidateToolCache(backend)
    \/ ProxyClose
    \/ \E r \in CallIds : ClosedWithoutClient(r)
    \/ \E r \in CallIds, backend \in 1..MaxBackends, ok \in BOOLEAN :
          BackendCloses(r, backend, ok)
    \/ \E r \in CallIds : CloseResumes(r)

----------------------------------------------------------------------------
\* Properties of the tool index.

\* The backends, by their place in config.servers, that list this name.
Exposing(name) ==
    {b \in 1..Len(indexState.backends) :
        \E i \in 1..Len(indexState.tools[b]) : indexState.tools[b][i] = name}

\* The refreshToolIndex calls that resolved.
Resolved(state) ==
    {r \in CallsOf(state, "refresh") : state.calls[r].status = "resolved"}
Rejected(state) ==
    {r \in CallsOf(state, "refresh") : state.calls[r].status = "rejected"}

\* C26: after a refreshToolIndex that resolved, the index holds every tool
\* name some backend lists once, each with the first backend of
\* config.servers that lists it.
C26_FirstDeclaredWins ==
    indexState # NotConstructed /\ Resolved(indexState) # {} =>
            LET index == indexState.toolIndex
            IN  /\ \A i, j \in 1..Len(index) :
                      index[i].name = index[j].name => i = j
                /\ {index[i].name : i \in 1..Len(index)}
                      = {name \in IndexToolNames : Exposing(name) # {}}
                /\ \A i \in 1..Len(index) :
                      /\ index[i].backend \in Exposing(index[i].name)
                      /\ \A b \in Exposing(index[i].name) : index[i].backend <= b

\* The tool names in an index.
IndexNames(index) == {index[i].name : i \in 1..Len(index)}

\* C36: the index changes only in the step in which a refreshToolIndex
\* call resolves, and then from the whole previous index to a whole new
\* one, with every tool name some backend lists; while the backends are
\* being listed and when a call is rejected the index is the one from
\* before.
C36_IndexReplacedAtomically ==
    [][indexState # NotConstructed /\ indexState' # NotConstructed =>
          /\ Rejected(indexState') # Rejected(indexState) =>
                indexState'.toolIndex = indexState.toolIndex
          /\ indexState'.toolIndex # indexState.toolIndex =>
                /\ Resolved(indexState') # Resolved(indexState)
                /\ IndexNames(indexState'.toolIndex)
                      = {name \in IndexToolNames : Exposing(name) # {}}]_vars

\* A refresh was rejected after an earlier one had filled the index.
C36_Witness ==
    /\ indexState # NotConstructed
    /\ Len(indexState.calls) = 2
    /\ indexState.calls[1].status = "resolved"
    /\ indexState.calls[2].status = "rejected"
    /\ Len(indexState.toolIndex) = 2

\* C37: once close() has resolved, and until connect or refreshToolIndex
\* is called again, no backend is connected and the index is empty; and
\* the index at no time lists a tool of a backend that is not connected.
C37_ClosedProxyStaysEmpty ==
    indexState # NotConstructed =>
        /\ (\E r \in CallsOf(indexState, "close") :
                /\ indexState.calls[r].status = "resolved"
                /\ indexState.calls[r].quiet) =>
              /\ indexState.connected = {}
              /\ indexState.toolIndex = <<>>
        /\ \A i \in 1..Len(indexState.toolIndex) :
              indexState.toolIndex[i].backend \in indexState.connected

(***************************************************************************)
(* ------------------------- Collector aggregates ----------------------- *)
(* The totals and accumulators record() keeps and reset() clears.  The     *)
(* ring buffer and the pending queue of the same calls are the Collector   *)
(* section above.                                                          *)
(***************************************************************************)
DefaultToolWindowSize == 2048
\* options.toolWindowSize left out
Unset == -1
WindowOptions == {Unset} \cup 0..MaxWindow

StatTools == {"a", "b"}
Durations == {10, 20}
StatEvents ==
    [toolName : StatTools, sessionId : SessionIds \cup {NoSession},
     success : BOOLEAN, durationMs : Durations]

StatsStart ==
    [toolWindowSize |-> 0, totalCalls |-> 0, totalErrors |-> 0,
     accumulators |-> EmptyMap, sessionAccumulators |-> EmptyMap,
     events |-> <<>>, resets |-> 0]

StatsInit == statsState = NotConstructed

\* Math.max(1, options.toolWindowSize ?? 2_048)
ToolWindowSize(option) ==
    LET size == IF option = Unset THEN DefaultToolWindowSize ELSE option
    IN  IF size > 1 THEN size ELSE 1

newAccumulator ==
    [count |-> 0, errorCount |-> 0, totalMs |-> 0, durations |-> <<>>,
     lastCalledAt |-> 0]

\* updateAccumulator(acc, event): the accumulator it leaves.
updateAccumulator_DropNewest(acc, event, size) ==
    [acc EXCEPT
        !.count = @ + 1,
        !.errorCount = IF event.success THEN @ ELSE @ + 1,
        !.totalMs = @ + event.durationMs,
        !.durations = IF Len(@) + 1 > size
                      THEN @
                      ELSE Append(@, event.durationMs),
        !.lastCalledAt = event.timestamp]
updateAccumulator(acc, event, size) ==
    [acc EXCEPT
        !.count = @ + 1,
        !.errorCount = IF event.success THEN @ ELSE @ + 1,
        !.totalMs = @ + event.durationMs,
        !.durations = IF Len(@) + 1 > size
                      THEN Tail(Append(@, event.durationMs))
                      ELSE Append(@, event.durationMs),
        !.lastCalledAt = event.timestamp]

\* updateToolAccumulator(map, toolName, event): the Map it leaves.
updateToolAccumulator(map, toolName, event, size) ==
    LET acc == IF toolName \in DOMAIN map THEN map[toolName]
               ELSE newAccumulator
    IN  MapPut(map, toolName, updateAccumulator(acc, event, size))

\* event.sessionId ?? "unknown"
SessionKeyOf(event) ==
    IF event.sessionId = NoSession THEN "unknown" ELSE event.sessionId

\* reset(): the totals and Maps it leaves.
Cleared_KeepTotals(state) ==
    [state EXCEPT !.accumulators = EmptyMap, !.sessionAccumulators = EmptyMap]
Cleared(state) ==
    [state EXCEPT !.accumulators = EmptyMap, !.sessionAccumulators = EmptyMap,
                  !.totalCalls = 0, !.totalErrors = 0]

\* new Collector(maxBufferSize, exporter, flushIntervalMs, { toolWindowSize })
CollectorAggregates(option) ==
    /\ statsState = NotConstructed
    /\ statsState' = [StatsStart EXCEPT !.toolWindowSize = ToolWindowSize(option)]
    /\ UNCHANGED exceptStats

\* collector.record(event): totals and accumulators
RecordAggregates(input) ==
    /\ statsState # NotConstructed
    /\ Len(statsState.events) < MaxStatEvents
    /\ LET size == statsState.toolWindowSize
           event == [toolName |-> input.toolName,
                     sessionId |-> input.sessionId,
                     success |-> input.success,
                     durationMs |-> input.durationMs,
                     timestamp |-> Len(statsState.events) + 1]
           sessionKey == SessionKeyOf(event)
           bySession == statsState.sessionAccumulators
           sessionAcc == IF sessionKey \in DOMAIN bySession
                         THEN bySession[sessionKey]
                         ELSE [acc |-> newAccumulator, tools |-> EmptyMap]
       IN  statsState' =
              [statsState EXCEPT
                  !.totalCalls = @ + 1,
                  !.totalErrors = IF event.success THEN @ ELSE @ + 1,
                  !.accumulators =
                      updateToolAccumulator(@, event.toolName, event, size),
                  !.sessionAccumulators =
                      MapPut(@, sessionKey,
                             [acc |-> updateAccumulator(sessionAcc.acc, event, size),
                              tools |-> updateToolAccumulator(sessionAcc.tools,
                                                              event.toolName,
                                                              event, size)]),
                  !.events = Append(@, event)]
    /\ UNCHANGED exceptStats

\* collector.reset(): totals and accumulators
ResetAggregates ==
    /\ statsState # NotConstructed
    /\ statsState.resets < MaxResets
    /\ statsState' = [Cleared(statsState) EXCEPT !.events = <<>>,
                                                 !.resets = @ + 1]
    /\ UNCHANGED exceptStats

StatsNext ==
    \/ \E option \in WindowOptions : CollectorAggregates(option)
    \/ \E input \in StatEvents : RecordAggregates(input)
    \/ ResetAggregates

\* getStats(): totalCalls, totalErrors and, per tool and per session, count
\* and errorCount.
getStats ==
    [totalCalls |-> statsState.totalCalls,
     totalErrors |-> statsState.totalErrors,
     tools |-> [name \in DOMAIN statsState.accumulators |->
                   [count |-> statsState.accumulators[name].count,
                    errorCount |-> statsState.accumulators[name].errorCount]],
     sessions |-> [id \in DOMAIN statsState.sessionAccumulators |->
                      [count |-> statsState.sessionAccumulators[id].acc.count,
                       errorCount |->
                           statsState.sessionAccumulators[id].acc.errorCount]]]

----------------------------------------------------------------------------
\* Properties of the aggregates.

RECURSIVE SumOver(_, _)
SumOver(f, keys) ==
    IF keys = {} THEN 0
    ELSE LET k == CHOOSE x \in keys : TRUE
         IN  f[k] + SumOver(f, keys \ {k})

\* C27: the totals of getStats are the sums of count and of errorCount over
\* the tools, and over the sessions, and count every event recorded since
\* the last reset.
C27_TotalsAreSums ==
    statsState # NotConstructed =>
        LET stats == getStats
            toolCount == [name \in DOMAIN stats.tools |-> stats.tools[name].count]
            toolErrors == [name \in DOMAIN stats.tools |-> stats.tools[name].errorCount]
            sessionCount == [id \in DOMAIN stats.sessions |-> stats.sessions[id].count]
            sessionErrors ==
                [id \in DOMAIN stats.sessions |-> stats.sessions[id].errorCount]
        IN  /\ stats.totalCalls = SumOver(toolCount, DOMAIN toolCount)
            /\ stats.totalErrors = SumOver(toolErrors, DOMAIN toolErrors)
            /\ stats.totalCalls = SumOver(sessionCount, DOMAIN sessionCount)
            /\ stats.totalErrors = SumOver(sessionErrors, DOMAIN sessionErrors)
            /\ stats.totalCalls = Len(statsState.events)
            /\ DOMAIN stats.sessions \subseteq SessionKeys

C27_Witness ==
    /\ statsState # NotConstructed
    /\ statsState.resets > 0
    /\ getStats.totalCalls = 3
    /\ getStats.totalErrors = 1
    /\ DOMAIN getStats.tools = StatTools
    /\ DOMAIN getStats.sessions = SessionKeys

\* The events of these sequence positions, as an accumulator should hold
\* them: all counted, the last toolWindowSize durations kept in order.
Exact(positions) ==
    LET history == statsState.events
        chosen == SelectSeq([i \in 1..Len(history) |-> i],
                            LAMBDA i : i \in positions)
        durations == [k \in 1..Len(chosen) |-> history[chosen[k]].durationMs]
        n == Len(durations)
        size == statsState.toolWindowSize
        total[k \in 0..n] == IF k = 0 THEN 0 ELSE total[k - 1] + durations[k]
    IN  [count |-> n,
         errorCount |-> Cardinality({i \in positions : ~history[i].success}),
         totalMs |-> total[n],
         durations |-> IF n > size THEN SubSeq(durations, n - size + 1, n)
                       ELSE durations,
         lastCalledAt |-> IF n = 0 THEN 0 ELSE history[chosen[n]].timestamp]

\* C28: every accumulator, of a tool, of a session and of a tool within a
\* session, holds at most toolWindowSize durations, the last recorded ones
\* in recording order, where toolWindowSize is the configured size or 1 if
\* that is below 1, and its count, errorCount and totalMs are those of all
\* the events recorded for it since the last reset.
C28_WindowBoundedTotalsExact ==
    statsState # NotConstructed =>
        LET history == statsState.events
            all == 1..Len(history)
            ofTool(name) == {i \in all : history[i].toolName = name}
            ofSession(key) == {i \in all : SessionKeyOf(history[i]) = key}
            tools == statsState.accumulators
            bySession == statsState.sessionAccumulators
        IN  /\ statsState.toolWindowSize >= 1 \/ statsState.events = <<>>
            /\ \A name \in DOMAIN tools :
                  /\ Len(tools[name].durations) <= statsState.toolWindowSize
                  /\ tools[name] = Exact(ofTool(name))
            /\ \A key \in DOMAIN bySession :
                  /\ Len(bySession[key].acc.durations) <= statsState.toolWindowSize
                  /\ bySession[key].acc = Exact(ofSession(key))
                  /\ \A name \in DOMAIN bySession[key].tools :
                        /\ Len(bySession[key].tools[name].durations)
                              <= statsState.toolWindowSize
                        /\ bySession[key].tools[name]
                              = Exact(ofTool(name) \cap ofSession(key))

C28_Witness ==
    /\ statsState # NotConstructed
    /\ statsState.toolWindowSize = 2
    /\ "a" \in DOMAIN statsState.accumulators
    /\ statsState.accumulators["a"].count = 3
    /\ statsState.accumulators["a"].durations = <<20, 10>>
    /\ statsState.accumulators["a"].totalMs = 40

(***************************************************************************)
(* --------------------------- MemoryCacheStore ------------------------- *)
(* The default store called directly: get, set and delete in any order,    *)
(* with time passing between the calls.  None of the three methods awaits, *)
(* so each call is one step.  A stored value is told apart by the call of  *)
(* set that stored it.                                                     *)
(***************************************************************************)
StoreKeys == {"a", "b", "c"}
StoreTtls == {0, 1}
StoreValues == {1, 2}
NoKey == "none"
NoWrite == [at |-> Never, ttl |-> Never, from |-> 0]
NoStoreCall == [op |-> "none", key |-> NoKey, returned |-> Undefined, removed |-> {}]
Unordered == <<NoKey>>

StoreStart ==
    [maxSize |-> 0, store |-> <<>>, now |-> 0,
     last |-> NoStoreCall,
     order |-> <<>>,
     written |-> [key \in StoreKeys |-> NoWrite],
     fill |-> <<>>]

StoreInit == storeState = NotConstructed

StoreKeySet(store) == {store[i].key : i \in 1..Len(store)}

\* The record of the calls, kept beside the store: the call that returned
\* last, with the keys it removed; the keys present, in the order of the calls of set that inserted
\* them (a call of set for a key already present inserts nothing); per key
\* present, the clock, ttl and value of the call of set that wrote its
\* entry; and the keys set so far while every call has been a set of a key
\* never set before.
Recorded(state, op, key, ttl, value, returned, after) ==
    LET present == StoreKeySet(after)
        fresh == op = "set" /\ ~StoreHas(state.store, key)
        kept == SelectSeq(state.order, LAMBDA k : k \in present /\ ~(fresh /\ k = key))
    IN  [state EXCEPT
            !.store = after,
            !.last = [op |-> op, key |-> key, returned |-> returned,
                      removed |-> StoreKeySet(state.store) \ present],
            !.order = IF fresh THEN Append(kept, key) ELSE kept,
            !.written = [k \in StoreKeys |->
                            IF k \notin present THEN NoWrite
                            ELSE IF op = "set" /\ k = key
                                 THEN [at |-> state.now, ttl |-> ttl, from |-> value]
                                 ELSE state.written[k]],
            !.fill = IF /\ op = "set"
                        /\ state.fill # Unordered
                        /\ \A i \in 1..Len(state.fill) : state.fill[i] # key
                     THEN Append(state.fill, key)
                     ELSE Unordered]

\* new MemoryCacheStore({ maxSize })
MemoryCacheStore(maxSize) ==
    /\ storeState = NotConstructed
    /\ storeState' = [StoreStart EXCEPT !.maxSize = maxSize]
    /\ UNCHANGED exceptStore

\* store.set(key, value, ttl)
StoreSetCalled(key, from, ttl) ==
    /\ storeState # NotConstructed
    /\ LET value == [isError |-> FALSE, from |-> from]
           after == StoreSet(storeState.store, key, value, ttl, storeState.now,
                             storeState.maxSize)
       IN  storeState' = Recorded(storeState, "set", key, ttl, from, Undefined, after)
    /\ UNCHANGED exceptStore

\* store.get(key)
StoreGetCalled(key) ==
    /\ storeState # NotConstructed
    /\ LET got == StoreGet(storeState.store, key, storeState.now)
       IN  storeState' = Recorded(storeState, "get", key, 0, 0, got.value, got.store)
    /\ UNCHANGED exceptStore

\* store.delete(key)
StoreDeleteCalled(key) ==
    /\ storeState # NotConstructed
    /\ LET after == StoreDelete(storeState.store, key)
       IN  storeState' = Recorded(storeState, "delete", key, 0, 0, Undefined, after)
    /\ UNCHANGED exceptStore

\* Time passes.
StoreTick ==
    /\ storeState # NotConstructed
    /\ storeState.now < MaxClock * MsPerSecond
    /\ storeState' = [storeState EXCEPT !.now = @ + MsPerSecond,
                                        !.last = NoStoreCall]
    /\ UNCHANGED exceptStore

StoreNext ==
    \/ \E maxSize \in MaxSizes : MemoryCacheStore(maxSize)
    \/ \E key \in StoreKeys, from \in StoreValues, ttl \in StoreTtls :
          StoreSetCalled(key, from, ttl)
    \/ \E key \in StoreKeys : StoreGetCalled(key)
    \/ \E key \in StoreKeys : StoreDeleteCalled(key)
    \/ StoreTick

----------------------------------------------------------------------------
\* Properties of MemoryCacheStore.

StoreEntry(store, key) == store[StoreIndex(store, key)]

\* A call of set for key, from a store with these keys to one with those.
SetEvictsOldest ==
    LET before == storeState
        after == storeState'
        key == after.last.key
        keys == StoreKeySet(before.store)
        atCapacity == Len(before.store) >= before.maxSize
        evicted == IF key \notin keys /\ atCapacity
                   THEN {before.order[1]}
                   ELSE {}
    IN  after.last.op = "set" =>
            /\ StoreKeySet(after.store) = (keys \ evicted) \cup {key}
            /\ Len(after.store) = Cardinality((keys \ evicted) \cup {key})
            /\ after.last.removed = evicted
            /\ \A k \in keys \ (evicted \cup {key}) :
                  StoreEntry(after.store, k) = StoreEntry(before.store, k)

\* C21: a call of set for a key that is absent, made when the store holds
\* maxSize entries or more, removes exactly one entry, that of the key
\* inserted earliest among those present (a get or a set of a key present
\* does not make it later), and any other call of set removes nothing; and
\* when every call so far has been a set of a key not set before, more than
\* maxSize of them, the store holds exactly the maxSize keys set last.
C21_FifoEviction ==
    /\ [][SetEvictsOldest]_vars
    /\ [](LET fill == storeState.fill
              M == storeState.maxSize
          IN  storeState # NotConstructed
              /\ fill # Unordered /\ Len(fill) > M /\ M > 0 =>
                  /\ Len(storeState.store) = M
                  /\ StoreKeySet(storeState.store) =
                        {fill[i] : i \in (Len(fill) - M + 1)..Len(fill)}
                  /\ fill[1] \notin StoreKeySet(storeState.store))

C21_Witness ==
    /\ storeState # NotConstructed
    /\ storeState.maxSize = 2
    /\ storeState.fill # Unordered
    /\ Len(storeState.fill) = 3
    /\ storeState.last.op = "set"
    /\ storeState.last.removed = {storeState.fill[1]}
    /\ Len(storeState.store) = 2

\* A call of get for key.
GetPurgesExpired ==
    LET before == storeState
        after == storeState'
        key == after.last.key
        returned == after.last.returned
        wrote == before.written[key]
    IN  after.last.op = "get" =>
            IF ~StoreHas(before.store, key)
            THEN returned = Undefined /\ after.store = before.store
            ELSE LET entry == StoreEntry(before.store, key)
                 IN  /\ entry.expiresAt = wrote.at + wrote.ttl * MsPerSecond
                     /\ IF entry.expiresAt <= before.now
                        THEN /\ returned = Undefined
                             /\ ~StoreHas(after.store, key)
                             /\ after.last.removed = {key}
                        ELSE /\ returned = entry.result
                             /\ returned.from = wrote.from
                             /\ after.store = before.store
                     /\ wrote.ttl = 0 => returned = Undefined
                     /\ before.now < wrote.at + wrote.ttl * MsPerSecond
                           => returned = [isError |-> FALSE, from |-> wrote.from]

\* C22: a call of get for a key whose entry has expiresAt <= now returns
\* undefined and removes the entry; an entry written with ttl = 0 is
\* never returned; and a call of get made before ttl seconds have passed
\* since the entry was written returns the value written.
C22_GetNeverReturnsExpired == [][GetPurgesExpired]_vars

C22_Witness ==
    /\ storeState # NotConstructed
    /\ storeState.last.op = "get"
    /\ storeState.last.removed = {storeState.last.key}
    /\ storeState.last.returned = Undefined

(***************************************************************************)
(* --------------------------- wrapToolHandler -------------------------- *)
(* The function wrapToolHandler returns (McpAnalytics.track passes its own *)
(* collector, sampleRate, metadata and tracing to it), called several      *)
(* times, one call at a time.  The steps of a call are its entry, the      *)
(* resolution of startToolSpan when tracing is on, and the settling of the *)
(* handler.  Values are told apart by what byteSize does with them.        *)
(***************************************************************************)
\* A value: undefined, null, a string (text: its code points), an integer
\* (num), an object whose properties are integers (props: key and num in
\* the order of the object), a function, or a BigInt.
WrapValue(kind, text, num, props) ==
    [kind |-> kind, text |-> text, num |-> num, props |-> props]
WrapUndefined == WrapValue("undefined", <<>>, 0, <<>>)
\* undefined, null, "h\u00E9", "\u20AC\U0001F600", 5, -12, {"x":1},
\* {"\u00F1":1,"\"":10}, a function, 1n
WrapValues ==
    {WrapUndefined,
     WrapValue("null", <<>>, 0, <<>>),
     WrapValue("string", <<104, 233>>, 0, <<>>),
     WrapValue("string", <<8364, 128512>>, 0, <<>>),
     WrapValue("number", <<>>, 5, <<>>),
     WrapValue("number", <<>>, -12, <<>>),
     WrapValue("object", <<>>, 0, <<[key |-> <<120>>, num |-> 1]>>),
     WrapValue("object", <<>>, 0, <<[key |-> <<241>>, num |-> 1],
                                     [key |-> <<34>>, num |-> 10]>>),
     WrapValue("function", <<>>, 0, <<>>),
     WrapValue("bigint", <<>>, 0, <<>>)}

\* What a function threw: an Error object or a string.
NoError == [isErrorObject |-> FALSE, message |-> "none"]
WrapErrors == {[isErrorObject |-> TRUE, message |-> "boom"],
               [isErrorObject |-> FALSE, message |-> "boom"]}
\* JSON.stringify of a BigInt throws this TypeError.
BigIntError ==
    [isErrorObject |-> TRUE, message |-> "Do not know how to serialize a BigInt"]

\* How a call of a function ended.
WrapReturned(value) == [threw |-> FALSE, value |-> value, error |-> NoError]
WrapThrew(error) == [threw |-> TRUE, value |-> WrapUndefined, error |-> error]
HandlerOutcomes ==
    {WrapReturned(v) : v \in WrapValues} \cup {WrapThrew(e) : e \in WrapErrors}

\* The bytes TextEncoder writes for one code point: one up to U+007F, two
\* up to U+07FF, three up to U+FFFF (for a lone surrogate the three of
\* U+FFFD), four above.
Utf8Bytes(c) ==
    IF c < 128 THEN 1
    ELSE IF c < 2048 THEN 2
    ELSE IF c < 65536 THEN 3
    ELSE 4

\* new TextEncoder().encode(str).byteLength
Utf8Length(str) ==
    LET F[i \in 0..Len(str)] ==
            IF i = 0 THEN 0 ELSE F[i - 1] + Utf8Bytes(str[i])
    IN  F[Len(str)]

\* The decimal digits of a natural number, as code points.
RECURSIVE Digits(_)
Digits(n) ==
    IF n < 10 THEN <<48 + n>> ELSE Digits(n \div 10) \o <<48 + (n % 10)>>

\* JSON.stringify of an integer
NumberText(n) == IF n < 0 THEN <<45>> \o Digits(-n) ELSE Digits(n)

\* A hexadecimal digit in lower case, as a code point.
HexDigit(d) == IF d < 10 THEN 48 + d ELSE 87 + d

\* JSON.stringify of one code point inside a string: \" and \\, the short
\* escapes of backspace, tab, line feed, form feed and carriage return,
\* \uXXXX for the other control characters and for a lone surrogate, and
\* the character itself otherwise.
EscapedChar(c) ==
    IF c \in {34, 92} THEN <<92, c>>
    ELSE IF c = 8 THEN <<92, 98>>
    ELSE IF c = 9 THEN <<92, 116>>
    ELSE IF c = 10 THEN <<92, 110>>
    ELSE IF c = 12 THEN <<92, 102>>
    ELSE IF c = 13 THEN <<92, 114>>
    ELSE IF c < 32 \/ c \in 55296..57343
         THEN <<92, 117, HexDigit(c \div 4096), HexDigit((c \div 256) % 16),
                HexDigit((c \div 16) % 16), HexDigit(c % 16)>>
    ELSE <<c>>

\* JSON.stringify of a string
StringText(str) ==
    LET F[i \in 0..Len(str)] ==
            IF i = 0 THEN <<34>> ELSE F[i - 1] \o EscapedChar(str[i])
    IN  F[Len(str)] \o <<34>>

\* JSON.stringify of an object with integer properties
ObjectText(props) ==
    <<123>>
    \o Join([i \in 1..Len(props) |->
                StringText(props[i].key) \o <<58>> \o NumberText(props[i].num)],
            44)
    \o <<125>>

\* byteSize(value): 0 for undefined and null, otherwise the UTF-8 length
\* of the string or of JSON.stringify(value).  JSON.stringify throws for a
\* BigInt and returns undefined for a function, which encode() takes as
\* the empty string.
byteSize(value) ==
    IF value.kind \in {"undefined", "null"} THEN [threw |-> FALSE, size |-> 0]
    ELSE IF value.kind = "string"
         THEN [threw |-> FALSE, size |-> Utf8Length(value.text)]
    ELSE IF value.kind = "number"
         THEN [threw |-> FALSE, size |-> Utf8Length(NumberText(value.num))]
    ELSE IF value.kind = "object"
         THEN [threw |-> FALSE, size |-> Utf8Length(ObjectText(value.props))]
    ELSE IF value.kind = "function"
         THEN [threw |-> FALSE, size |-> 0]
    ELSE [threw |-> TRUE, size |-> 0]

\* err instanceof Error ? err.message : String(err)
WrapErrorMessage(err) == err.message

NoWrapCall ==
    [pc |-> "idle", args |-> WrapUndefined, sampled |-> FALSE,
     inputSize |-> 0, span |-> "none", handlerCalls |-> 0]

WrapStart == [tracing |-> FALSE, call |-> NoWrapCall, history |-> <<>>]

WrapInit == wrapState = NotConstructed

\* The call settles: what the handler did, what the wrapper did, the
\* events it gave to collector.record and the state it left the span in.
WrapSettled(state, handled, wrapper, recordedEvents, span) ==
    [state EXCEPT
        !.history = Append(@, [args |-> state.call.args,
                               sampled |-> state.call.sampled,
                               handlerCalls |-> state.call.handlerCalls,
                               handler |-> handled,
                               wrapper |-> wrapper,
                               events |-> recordedEvents,
                               span |-> span]),
        !.call = NoWrapCall]

\* The event of the try block.
SuccessEvent(call, outputSize) ==
    [success |-> TRUE, inputSize |-> call.inputSize, outputSize |-> outputSize]

\* The event of the catch block.
FailureEvent(call, err) ==
    [success |-> FALSE, errorMessage |-> WrapErrorMessage(err),
     inputSize |-> call.inputSize, outputSize |-> 0]

\* The catch block: record the failure, end the span, rethrow err.
WrapCatch(state, handled, err) ==
    WrapSettled(state, handled, WrapThrew(err),
                <<FailureEvent(state.call, err)>>,
                IF state.call.span = "open" THEN "error" ELSE "none")

\* The try block from the point the awaited handler has settled.
WrapAfterHandler(state, handled) ==
    IF handled.threw
    THEN WrapCatch(state, handled, handled.error)
    ELSE LET outputSize == byteSize(handled.value)
         IN  IF outputSize.threw
             THEN WrapCatch(state, handled, BigIntError)
             ELSE WrapSettled(state, handled, handled,
                              <<SuccessEvent(state.call, outputSize.size)>>,
                              IF state.call.span = "open" THEN "ok" ELSE "none")

\* wrapToolHandler(toolName, handler, collector, sampleRate, metadata, tracing)
wrapToolHandler(tracingOn) ==
    /\ wrapState = NotConstructed
    /\ wrapState' = [WrapStart EXCEPT !.tracing = tracingOn]
    /\ UNCHANGED exceptWrap

\* The wrapper is called: sampled is Math.random() < sampleRate.
WrapperCalled(args, sampled) ==
    /\ wrapState # NotConstructed
    /\ wrapState.call.pc = "idle"
    /\ Len(wrapState.history) < MaxWrapCalls
    /\ LET inputSize == byteSize(args)
           entered == [wrapState EXCEPT !.call.args = args,
                                        !.call.sampled = sampled]
       IN  wrapState' =
              IF ~sampled
              THEN [entered EXCEPT !.call.pc = "passthrough",
                                   !.call.handlerCalls = 1]
              ELSE IF inputSize.threw
              THEN WrapSettled(entered, WrapReturned(WrapUndefined),
                               WrapThrew(BigIntError), <<>>, "none")
              ELSE IF wrapState.tracing
              THEN [entered EXCEPT !.call.pc = "span",
                                   !.call.inputSize = inputSize.size]
              ELSE [entered EXCEPT !.call.pc = "handler",
                                   !.call.inputSize = inputSize.size,
                                   !.call.handlerCalls = 1]
    /\ UNCHANGED exceptWrap

\* await startToolSpan(...) resolves, with a span or with undefined, and
\* the handler is invoked.
WrapSpanSettles(gotSpan) ==
    /\ wrapState # NotConstructed
    /\ wrapState.call.pc = "span"
    /\ wrapState' = [wrapState EXCEPT
                        !.call.pc = "handler",
                        !.call.span = IF gotSpan THEN "open" ELSE "none",
                        !.call.handlerCalls = @ + 1]
    /\ UNCHANGED exceptWrap

\* The handler returns or throws.
WrapHandlerSettles(outcome) ==
    /\ wrapState # NotConstructed
    /\ wrapState.call.pc \in {"passthrough", "handler"}
    /\ wrapState' =
          IF wrapState.call.pc = "passthrough"
          THEN WrapSettled(wrapState, outcome, outcome, <<>>, "none")
          ELSE WrapAfterHandler(wrapState, outcome)
    /\ UNCHANGED exceptWrap

WrapNext ==
    \/ \E tracingOn \in BOOLEAN : wrapToolHandler(tracingOn)
    \/ \E args \in WrapValues, sampled \in BOOLEAN : WrapperCalled(args, sampled)
    \/ \E gotSpan \in BOOLEAN : WrapSpanSettles(gotSpan)
    \/ \E outcome \in HandlerOutcomes : WrapHandlerSettles(outcome)

----------------------------------------------------------------------------
\* Properties of the wrapper.

\* C31: every call of the wrapper invokes the handler once and ends as the
\* handler did, with the same value or the same exception; a sampled call
\* records one event, without a session id, with success = false and the
\* error message exactly when the handler threw, and a call that is not
\* sampled records none.
C31_WrapperIsTransparent ==
    wrapState # NotConstructed =>
        \A i \in 1..Len(wrapState.history) :
            LET c == wrapState.history[i]
            IN  /\ c.handlerCalls = 1
                /\ c.wrapper = c.handler
                /\ ~c.sampled => c.events = <<>>
                /\ c.sampled =>
                      /\ Len(c.events) = 1
                      /\ "sessionId" \notin DOMAIN c.events[1]
                      /\ c.events[1].success = ~c.handler.threw
                      /\ c.handler.threw =>
                            c.events[1].errorMessage
                               = WrapErrorMessage(c.handler.error)

(***************************************************************************)
(* ------------------- instrumentTransport: message flow ---------------- *)
(* The set trap for onmessage and the send function of the get trap, seen  *)
(* from the two ends: the function the user assigned to onmessage and the  *)
(* send of the underlying transport.  A message is its kind and its id;    *)
(* its params, result or error are JSON values, whose byteSize is defined. *)
(***************************************************************************)
FlowIds == 1..MaxFlowIds
UserHandlers == {1, 2}
NoHandler == 0
\* a tools/call request, another request, a notification, a response with
\* a result, a response with an error
FlowKinds == {"call", "request", "notification", "result", "error"}
FlowMessages ==
    {[kind |-> k, id |-> i] : k \in FlowKinds \ {"notification"}, i \in FlowIds}
       \cup {[kind |-> "notification", id |-> 0]}

\* "id" in message
HasId(message) == message.kind # "notification"

\* isRequest(message) && message.method === "tools/call"
IsToolsCall(message) == HasId(message) /\ message.kind = "call"

NoFlow == [op |-> "none", message |-> [kind |-> "notification", id |-> 0],
           tracked |-> FALSE, toUser |-> <<>>, toTarget |-> <<>>]

FlowStart ==
    [pc |-> "unwrapped",
     installed |-> [handler |-> NoHandler, when |-> "never"],
     target |-> [via |-> "none", userHandler |-> NoHandler],
     pendingIds |-> {}, recorded |-> 0, steps |-> 0, last |-> NoFlow]

FlowInit == flowState = NotConstructed

\* The set trap of the Proxy for prop = "onmessage": a function is kept as
\* userHandler of a closure assigned to target.onmessage, any other value is
\* assigned as it is.
SetTrap(state, value) ==
    IF value # NoHandler
    THEN [state EXCEPT !.target = [via |-> "interceptor", userHandler |-> value]]
    ELSE [state EXCEPT !.target = [via |-> "none", userHandler |-> NoHandler]]

\* userHandler(message, extra) without the call for a tracked message.
UserCalls_UntrackedOnly(userHandler, message, tracked) ==
    IF tracked THEN <<>>
    ELSE <<[handler |-> userHandler, message |-> message]>>

\* userHandler(message, extra): the calls of the user's functions made.
UserCalls(userHandler, message, tracked) ==
    <<[handler |-> userHandler, message |-> message]>>

\* target.send.call(target, message, options): the calls of target.send made.
TargetSends(message, tracked) == <<message>>

\* A transport, on which the user has or has not assigned onmessage already.
FlowTransport(value) ==
    /\ flowState = NotConstructed
    /\ flowState' =
          [FlowStart EXCEPT
              !.installed = [handler |-> value,
                             when |-> IF value = NoHandler THEN "never"
                                      ELSE "before"],
              !.target = [via |-> IF value = NoHandler THEN "none" ELSE "user",
                          userHandler |-> value]]
    /\ UNCHANGED exceptFlow

\* instrumentTransport(transport, ...): origOnMessage, if set, is assigned
\* again through the proxy.
FlowInstrument ==
    /\ flowState # NotConstructed
    /\ flowState.pc = "unwrapped"
    /\ LET origOnMessage == flowState.target.userHandler
           wrapped == [flowState EXCEPT !.pc = "wrapped"]
       IN  flowState' = IF origOnMessage # NoHandler
                        THEN SetTrap(wrapped, origOnMessage)
                        ELSE wrapped
    /\ UNCHANGED exceptFlow

\* proxy.onmessage = value, a function or undefined
FlowSetOnmessage(value) ==
    /\ flowState # NotConstructed
    /\ flowState.pc = "wrapped"
    /\ flowState.installed.handler # value
    /\ flowState' = [SetTrap(flowState, value) EXCEPT
                        !.installed = [handler |-> value,
                                       when |-> IF value = NoHandler
                                                THEN "never" ELSE "after"]]
    /\ UNCHANGED exceptFlow

\* The underlying transport delivers message to target.onmessage.
FlowDeliver(message, decision) ==
    /\ flowState # NotConstructed
    /\ flowState.pc = "wrapped"
    /\ flowState.target.via = "interceptor"
    /\ flowState.steps < MaxFlowMessages
    /\ decision => IsToolsCall(message)
    /\ flowState' =
          [flowState EXCEPT
              !.pendingIds = IF decision THEN @ \cup {message.id} ELSE @,
              !.steps = @ + 1,
              !.last = [op |-> "deliver", message |-> message,
                        tracked |-> decision,
                        toUser |-> UserCalls(flowState.target.userHandler,
                                             message, decision),
                        toTarget |-> <<>>]]
    /\ UNCHANGED exceptFlow

\* proxy.send(message, options)
FlowSend(message) ==
    /\ flowState # NotConstructed
    /\ flowState.pc = "wrapped"
    /\ flowState.steps < MaxFlowMessages
    /\ LET matched == HasId(message) /\ message.id \in flowState.pendingIds
       IN  flowState' =
              [flowState EXCEPT
                  !.pendingIds = IF matched THEN @ \ {message.id} ELSE @,
                  !.recorded = IF matched THEN @ + 1 ELSE @,
                  !.steps = @ + 1,
                  !.last = [op |-> "send", message |-> message,
                            tracked |-> matched,
                            toUser |-> <<>>,
                            toTarget |-> TargetSends(message, matched)]]
    /\ UNCHANGED exceptFlow

FlowNext ==
    \/ \E value \in UserHandlers \cup {NoHandler} : FlowTransport(value)
    \/ FlowInstrument
    \/ \E value \in UserHandlers \cup {NoHandler} : FlowSetOnmessage(value)
    \/ \E message \in FlowMessages, decision \in BOOLEAN :
          FlowDeliver(message, decision)
    \/ \E message \in FlowMessages : FlowSend(message)

----------------------------------------------------------------------------
\* Properties of the message flow.

\* A message went through the wrapper in this step.
FlowStep ==
    /\ flowState # NotConstructed
    /\ flowState'.steps = flowState.steps + 1

\* C32: a message the underlying transport delivers makes one call, of the
\* function the user assigned to onmessage last (before or after the
\* wrapping), with that message, and none of target.send; a message given
\* to the wrapper's send makes one call of target.send, with that message,
\* and none of a user function; whether the message is tracked or not.
C32_TransparentToMessages ==
    [][FlowStep =>
          LET last == flowState'.last
          IN  /\ last.op = "deliver" =>
                    /\ flowState.installed.handler # NoHandler
                    /\ last.toUser =
                          <<[handler |-> flowState.installed.handler,
                             message |-> last.message]>>
                    /\ last.toTarget = <<>>
              /\ last.op = "send" =>
                    /\ last.toTarget = <<last.message>>
                    /\ last.toUser = <<>>]_vars

\* A sampled tools/call request was delivered to a function assigned to
\* onmessage before the transport was wrapped.
C32_Witness ==
    /\ flowState # NotConstructed
    /\ flowState.installed.when = "before"
    /\ flowState.last.op = "deliver"
    /\ flowState.last.tracked
    /\ flowState.last.message.kind = "call"
    /\ flowState.last.toUser = <<[handler |-> flowState.installed.handler,
                                  message |-> flowState.last.message]>>

(***************************************************************************)
(* ---------------------------- Backend client -------------------------- *)
(* HttpBackendClient and BaseBackendClient (the base of the stdio client)  *)
(* have the same fields and the same method bodies.  Each method runs up   *)
(* to its await in one step and from it in another; no method checks for   *)
(* a call in progress, so calls of one method overlap as well.             *)
(***************************************************************************)
NoBackendCall == [op |-> "none", phase |-> "never", outcome |-> "none"]

ClientStart ==
    [urlOk |-> TRUE, client |-> FALSE, cached |-> FALSE,
     connecting |-> 0, closing |-> 0, unsetting |-> 0, listing |-> 0,
     calling |-> 0, phase |-> "never", lastCall |-> NoBackendCall]

ClientInit == clientState = NotConstructed

\* get connected(): this.client !== undefined
Connected(state) == state.client

\* if (!this.client) throw new Error(`Backend "..." is not connected`)
NotConnectedGuard(state) == ~state.client

\* The continuation of a close() that awaited undefined is queued: it runs
\* before anything the SDK client settles.
NoClientMicrotask(state) == state.unsetting = 0

\* new HttpBackendClient(name, config), with a url that "new URL" accepts
\* or not; new StdioBackendClient(name, config) parses no url.
BackendClient(urlOk) ==
    /\ clientState = NotConstructed
    /\ clientState' = [ClientStart EXCEPT !.urlOk = urlOk]
    /\ UNCHANGED exceptClient

\* connect() up to "await this.client.connect(transport)": transport and
\* client are assigned first. "new URL(this.config.url)" throws before
\* either assignment and connect() has rejected.
ClientConnect ==
    /\ clientState # NotConstructed
    /\ clientState.urlOk => clientState.connecting < MaxClientCalls
    /\ clientState' =
          IF clientState.urlOk
          THEN [clientState EXCEPT !.client = TRUE,
                                   !.connecting = @ + 1,
                                   !.phase = "connecting"]
          ELSE [clientState EXCEPT !.phase = "failed"]
    /\ UNCHANGED exceptClient

\* client.connect(transport) resolves, or rejects and connect() with it.
ClientConnectSettles(ok) ==
    /\ clientState # NotConstructed
    /\ NoClientMicrotask(clientState)
    /\ clientState.connecting > 0
    /\ clientState' = [clientState EXCEPT
                          !.connecting = @ - 1,
                          !.phase = IF ok THEN "connected" ELSE "failed"]
    /\ UNCHANGED exceptClient

\* close() up to "await this.client?.close()": the close of the SDK client,
\* or undefined when there is no client.
ClientClose ==
    /\ clientState # NotConstructed
    /\ clientState.closing + clientState.unsetting < MaxClientCalls
    /\ clientState' =
          IF clientState.client
          THEN [clientState EXCEPT !.closing = @ + 1, !.phase = "closing"]
          ELSE [clientState EXCEPT !.unsetting = @ + 1, !.phase = "closing"]
    /\ UNCHANGED exceptClient

\* The three assignments after the await.
FieldsCleared(state) ==
    [state EXCEPT !.client = FALSE, !.cached = FALSE, !.phase = "closed"]

\* close() on a backend without client resumes: the three fields are cleared.
ClientCloseResumes ==
    /\ clientState # NotConstructed
    /\ clientState.unsetting > 0
    /\ clientState' = [FieldsCleared(clientState) EXCEPT !.unsetting = @ - 1]
    /\ UNCHANGED exceptClient

\* The awaited close resolves and the three fields are cleared, or it
\* rejects and close() with it.
ClientCloseSettles(ok) ==
    /\ clientState # NotConstructed
    /\ NoClientMicrotask(clientState)
    /\ clientState.closing > 0
    /\ clientState' =
          IF ok
          THEN [FieldsCleared(clientState) EXCEPT !.closing = @ - 1]
          ELSE [clientState EXCEPT !.closing = @ - 1,
                                   !.phase = "closeFailed"]
    /\ UNCHANGED exceptClient

\* listTools() up to its return, its throw or "await this.client.listTools()"
ClientListTools ==
    /\ clientState # NotConstructed
    /\ LET outcome == IF clientState.cached THEN "cached"
                      ELSE IF NotConnectedGuard(clientState) THEN "notConnected"
                      ELSE "upstream"
       IN  /\ outcome = "upstream" => clientState.listing < MaxClientCalls
           /\ clientState' =
                 [clientState EXCEPT
                     !.listing = IF outcome = "upstream" THEN @ + 1 ELSE @,
                     !.lastCall = [op |-> "listTools",
                                   phase |-> clientState.phase,
                                   outcome |-> outcome]]
    /\ UNCHANGED exceptClient

\* this.client.listTools() resolves and cachedTools is assigned, or rejects.
ClientListToolsSettles(ok) ==
    /\ clientState # NotConstructed
    /\ NoClientMicrotask(clientState)
    /\ clientState.listing > 0
    /\ clientState' = [clientState EXCEPT !.listing = @ - 1,
                                          !.cached = IF ok THEN TRUE ELSE @]
    /\ UNCHANGED exceptClient

\* callTool(toolName, args) up to its throw or "await this.client.callTool()"
ClientCallTool ==
    /\ clientState # NotConstructed
    /\ LET outcome == IF NotConnectedGuard(clientState) THEN "notConnected"
                      ELSE "upstream"
       IN  /\ outcome = "upstream" => clientState.calling < MaxClientCalls
           /\ clientState' =
                 [clientState EXCEPT
                     !.calling = IF outcome = "upstream" THEN @ + 1 ELSE @,
                     !.lastCall = [op |-> "callTool",
                                   phase |-> clientState.phase,
                                   outcome |-> outcome]]
    /\ UNCHANGED exceptClient

\* this.client.callTool() settles.
ClientCallToolSettles ==
    /\ clientState # NotConstructed
    /\ NoClientMicrotask(clientState)
    /\ clientState.calling > 0
    /\ clientState' = [clientState EXCEPT !.calling = @ - 1]
    /\ UNCHANGED exceptClient

\* invalidateToolCache()
ClientInvalidateToolCache ==
    /\ clientState # NotConstructed
    /\ clientState.cached
    /\ clientState' = [clientState EXCEPT !.cached = FALSE]
    /\ UNCHANGED exceptClient

ClientNext ==
    \/ \E urlOk \in BOOLEAN : BackendClient(urlOk)
    \/ ClientInvalidateToolCache
    \/ ClientConnect
    \/ \E ok \in BOOLEAN : ClientConnectSettles(ok)
    \/ ClientClose
    \/ ClientCloseResumes
    \/ \E ok \in BOOLEAN : ClientCloseSettles(ok)
    \/ ClientListTools
    \/ \E ok \in BOOLEAN : ClientListToolsSettles(ok)
    \/ ClientCallTool
    \/ ClientCallToolSettles

----------------------------------------------------------------------------
\* Properties of the backend client.

\* Before the first connect(), after a connect() that failed and after a
\* close() that completed.
Unconnected == {"never", "failed", "closed"}

\* C35: before the first connect, after a connect that failed and after
\* close the client reports connected = false, and a listTools or callTool
\* call made then fails as not connected without going to the upstream
\* client.
C35_ConnectedOnlyWhenEstablished ==
    clientState # NotConstructed =>
        /\ clientState.phase \in Unconnected => ~Connected(clientState)
        /\ clientState.lastCall.op # "none"
              /\ clientState.lastCall.phase \in Unconnected =>
                 clientState.lastCall.outcome = "notConnected"

(***************************************************************************)
(* ------------------- McpProxy.callTool: what is sent ------------------ *)
(* The routing sends "a" to backend f and every other name to backend s.   *)
(* Each middleware is a transform whose before() returns an object with    *)
(* some of the context's properties; transform assigns them to the         *)
(* context and calls next().                                               *)
(***************************************************************************)
SendRouting ==
    <<[pattern |-> <<"a">>, server |-> <<"f">>],
      [pattern |-> <<"*">>, server |-> <<"s">>]>>
SendBackends == {{<<"f">>, <<"s">>}, {<<"f">>}}
SendArguments == {"q1", "q2"}

\* The objects before() returns: the context's properties it sets.
ContextEdits ==
    {<<>>} \cup
    [{"toolName"} -> CallToolNames] \cup
    [{"arguments"} -> SendArguments] \cup
    [{"server"} -> {<<"f">>, <<"s">>}] \cup
    {[k \in {"toolName", "server"} |->
         IF k = "toolName" THEN <<"a", "a">> ELSE <<"s">>]}
EditLists == UNION {[1..n -> ContextEdits] : n \in 0..MaxEdits}

NothingSent == [backend |-> NoServer, toolName |-> <<>>, arguments |-> "none"]

SendStart ==
    [pc |-> "idle", edits |-> <<>>, backends |-> {},
     called |-> [toolName |-> <<>>, arguments |-> "none"],
     backend |-> NoServer,
     ctx |-> [toolName |-> <<>>, arguments |-> "none", server |-> NoServer],
     index |-> 0, sent |-> NothingSent]

SendInit == sendState = NotConstructed

\* Object.assign(ctx, transformed)
ObjectAssign(ctx, transformed) ==
    [k \in DOMAIN ctx |->
        IF k \in DOMAIN transformed THEN transformed[k] ELSE ctx[k]]

\* The backend the handler calls: the constant `backend` of callTool.
CalledBackend_FromContext(state) ==
    RouterResolve(RouterCompile(SendRouting), state.ctx.toolName)
CalledBackend(state) == state.backend

\* proxy.callTool(toolName, args) up to the chain: the route and the
\* backend are looked up and the context is made.
SendCallTool(edits, backends, toolName, args) ==
    /\ sendState = NotConstructed
    /\ LET compiled == RouterCompile(SendRouting)
           serverName == RouterResolve(compiled, toolName)
           called == [SendStart EXCEPT
                         !.edits = edits, !.backends = backends,
                         !.called = [toolName |-> toolName, arguments |-> args]]
       IN  sendState' =
              IF Lookups(compiled, backends, toolName) # NotSettled
              THEN [called EXCEPT !.pc = "done"]
              ELSE [called EXCEPT
                       !.pc = "running",
                       !.backend = serverName,
                       !.ctx = [toolName |-> toolName, arguments |-> args,
                                server |-> serverName]]
    /\ UNCHANGED exceptSend

\* next() enters the middleware at the cursor: transform assigns what
\* before() returned to the context and calls next().
SendTransform ==
    /\ sendState # NotConstructed
    /\ sendState.pc = "running"
    /\ sendState.index < Len(sendState.edits)
    /\ sendState' =
          [sendState EXCEPT
              !.index = @ + 1,
              !.ctx = ObjectAssign(@, sendState.edits[sendState.index + 1])]
    /\ UNCHANGED exceptSend

\* next() at the end of the list: the handler calls
\* backend.callTool(ctx.toolName, ctx.arguments).
SendHandler ==
    /\ sendState # NotConstructed
    /\ sendState.pc = "running"
    /\ sendState.index >= Len(sendState.edits)
    /\ sendState' =
          [sendState EXCEPT
              !.pc = "sent",
              !.sent = [backend |-> CalledBackend(sendState),
                        toolName |-> sendState.ctx.toolName,
                        arguments |-> sendState.ctx.arguments]]
    /\ UNCHANGED exceptSend

SendNext ==
    \/ \E edits \in EditLists, backends \in SendBackends,
          toolName \in CallToolNames, args \in SendArguments :
          SendCallTool(edits, backends, toolName, args)
    \/ SendTransform
    \/ SendHandler

----------------------------------------------------------------------------
\* Properties of what callTool sends.

\* The last value the edits give this property, or the one passed in.
LastSet(key, initial) ==
    LET setting == {i \in 1..Len(sendState.edits) :
                       key \in DOMAIN sendState.edits[i]}
    IN  IF setting = {} THEN initial
        ELSE sendState.edits[CHOOSE i \in setting :
                                \A j \in setting : j <= i][key]

\* C39: the backend called is the one the router resolves from the tool
\* name passed to callTool, whatever the middlewares assign to ctx.server
\* and ctx.toolName; the name and the arguments sent to it are those the
\* context holds after the middlewares.
C39_BackendFixedBeforeChain ==
    sendState # NotConstructed /\ sendState.pc = "sent" =>
        /\ sendState.sent.backend =
              RouterResolve(RouterCompile(SendRouting), sendState.called.toolName)
        /\ sendState.sent.toolName =
              LastSet("toolName", sendState.called.toolName)
        /\ sendState.sent.arguments =
              LastSet("arguments", sendState.called.arguments)

\* A call of "a" whose middlewares set the name to one routed elsewhere
\* and the server to another backend.
C39_Witness ==
    /\ sendState # NotConstructed
    /\ sendState.pc = "sent"
    /\ sendState.called.toolName = <<"a">>
    /\ sendState.ctx.server = <<"s">>
    /\ sendState.sent = [backend |-> <<"f">>, toolName |-> <<"a", "a">>,
                         arguments |-> "q2"]
    /\ sendState.called.arguments = "q1"

(***************************************************************************)
(* Specifications: the objects do not share state, each is run on its own  *)
(* with the others at rest.                                                *)
(***************************************************************************)
\* The objects of packages/proxy/src/middleware.ts and router.ts before
\* their first call.
ProxyInit ==
    /\ ChainInit /\ GlobInit /\ RouterInit /\ FilterInit /\ KeyInit
    /\ CacheInit /\ StoreInit /\ CallInit /\ IndexInit /\ StatsInit
    /\ WrapInit /\ FlowInit /\ ClientInit /\ SendInit

InitCollector ==
    /\ CollectorInit /\ InterceptorInit /\ ListenerInit /\ ProxyInit
    /\ tracing = FALSE /\ samplingStrategy = "per_call"

SpecCollector == InitCollector /\ [][CollectorNext]_vars

InitInterceptor ==
    CollectorInit /\ InterceptorInit /\ ListenerInit /\ ProxyInit

SpecInterceptor == InitInterceptor /\ [][InterceptorNext]_vars

InitListener ==
    /\ CollectorInit /\ InterceptorInit /\ ListenerInit /\ ProxyInit
    /\ tracing = FALSE /\ samplingStrategy = "per_call"

SpecListener == InitListener /\ [][ListenerNext]_vars

SpecRoutes == InitListener /\ [][RoutesNext]_vars

InitChain ==
    /\ CollectorInit /\ InterceptorInit /\ ListenerInit /\ ProxyInit
    /\ tracing = FALSE /\ samplingStrategy = "per_call"

SpecChain == InitChain /\ [][ChainNext]_vars

InitGlob ==
    /\ CollectorInit /\ InterceptorInit /\ ListenerInit /\ ProxyInit
    /\ tracing = FALSE /\ samplingStrategy = "per_call"

SpecGlob == InitGlob /\ [][GlobNext]_vars

InitRouter ==
    /\ CollectorInit /\ InterceptorInit /\ ListenerInit /\ ProxyInit
    /\ tracing = FALSE /\ samplingStrategy = "per_call"

SpecRouter == InitRouter /\ [][RouterNext]_vars

InitFilter ==
    /\ CollectorInit /\ InterceptorInit /\ ListenerInit /\ ProxyInit
    /\ tracing = FALSE /\ samplingStrategy = "per_call"

SpecFilter == InitFilter /\ [][FilterNext]_vars

InitKey ==
    /\ CollectorInit /\ InterceptorInit /\ ListenerInit /\ ProxyInit
    /\ tracing = FALSE /\ samplingStrategy = "per_call"

SpecKey == InitKey /\ [][KeyNext]_vars

InitCache ==
    /\ CollectorInit /\ InterceptorInit /\ ListenerInit /\ ProxyInit
    /\ tracing = FALSE /\ samplingStrategy = "per_call"

SpecCache == InitCache /\ [][CacheNext]_vars

InitStore ==
    /\ CollectorInit /\ InterceptorInit /\ ListenerInit /\ ProxyInit
    /\ tracing = FALSE /\ samplingStrategy = "per_call"

SpecStore == InitStore /\ [][StoreNext]_vars

InitCall ==
    /\ CollectorInit /\ InterceptorInit /\ ListenerInit /\ ProxyInit
    /\ tracing = FALSE /\ samplingStrategy = "per_call"

SpecCall == InitCall /\ [][McpProxyNext]_vars

InitIndex ==
    /\ CollectorInit /\ InterceptorInit /\ ListenerInit /\ ProxyInit
    /\ tracing = FALSE /\ samplingStrategy = "per_call"

SpecIndex == InitIndex /\ [][IndexNext]_vars

SpecClose == InitIndex /\ [][CloseNext]_vars

InitStats ==
    /\ CollectorInit /\ InterceptorInit /\ ListenerInit /\ ProxyInit
    /\ tracing = FALSE /\ samplingStrategy = "per_call"

SpecStats == InitStats /\ [][StatsNext]_vars

InitWrap ==
    /\ CollectorInit /\ InterceptorInit /\ ListenerInit /\ ProxyInit
    /\ tracing = FALSE /\ samplingStrategy = "per_call"

SpecWrap == InitWrap /\ [][WrapNext]_vars

InitFlow ==
    /\ CollectorInit /\ InterceptorInit /\ ListenerInit /\ ProxyInit
    /\ tracing = FALSE /\ samplingStrategy = "per_call"

SpecFlow == InitFlow /\ [][FlowNext]_vars

SpecReset == InitCollector /\ [][ResetNext]_vars

InitClient ==
    /\ CollectorInit /\ InterceptorInit /\ ListenerInit /\ ProxyInit
    /\ tracing = FALSE /\ samplingStrategy = "per_call"

SpecClient == InitClient /\ [][ClientNext]_vars

InitSend ==
    /\ CollectorInit /\ InterceptorInit /\ ListenerInit /\ ProxyInit
    /\ tracing = FALSE /\ samplingStrategy = "per_call"

SpecSend == InitSend /\ [][SendNext]_vars

====
